---- MODULE Spec2Model ----
(***************************************************************************)
(* Equivalence classes and equivalence groups of physical expressions      *)
(* (datafusion/physical-expr/src/equivalence/class.rs).                    *)
(*                                                                         *)
(* An expression is a record [kind, label, index, children]: `kind` is the *)
(* concrete node type (what as_any().type_id() distinguishes), `label` the *)
(* non-child payload (column name, literal value, operator, function name),*)
(* `index` the ordinal of a column (0 for every other kind) and `children` *)
(* the ordered operands.  Structural equality (PhysicalExpr::eq) is record *)
(* equality.  An EquivalenceClass (an IndexSet) is a duplicate-free        *)
(* sequence in insertion order; an EquivalenceGroup is the sequence of its *)
(* classes.  Rust indices are 0-based, the sequences here are 1-based.     *)
(***************************************************************************)
EXTENDS Integers, Sequences, FiniteSets, TLC

VARIABLES
    classes,    \* EquivalenceGroup.classes of the group being built
    added,      \* history: the pairs given to add_equal_conditions so far
    nops,       \* number of mutating operations applied so far
    call,       \* the last operation: [op, args, pre, ret]
    window_frame,   \* the WindowFrame built last, NoFrame before that
    order_by        \* the ORDER BY keys handed to regularize_order_bys

vars == <<classes, added, nops, call, window_frame, order_by>>

(***************************************************************************)
(* Expressions                                                             *)
(***************************************************************************)
Column(name, index) ==
    [kind |-> "Column", label |-> name, index |-> index, children |-> <<>>]

Literal(value) ==
    [kind |-> "Literal", label |-> value, index |-> 0, children |-> <<>>]

BinaryExpr(left, op, right) ==
    [kind |-> "BinaryExpr", label |-> op, index |-> 0,
     children |-> <<left, right>>]

ScalarFunctionExpr(name, args) ==
    [kind |-> "ScalarFunctionExpr", label |-> name, index |-> 0,
     children |-> args]

children(expr) == expr.children

with_new_children(expr, new_children) ==
    [expr EXCEPT !.children = new_children]

type_id(expr) == expr.kind

\* The absent value of an Option.
None == [kind |-> "None", label |-> "", index |-> 0, children |-> <<>>]

(***************************************************************************)
(* EquivalenceClass                                                        *)
(***************************************************************************)
new_empty == <<>>

contains(cls, expr) == \E i \in 1..Len(cls) : cls[i] = expr

\* push putting a new expression in front of the members.
push_front(cls, expr) == IF contains(cls, expr) THEN cls ELSE <<expr>> \o cls

push(cls, expr) == IF contains(cls, expr) THEN cls ELSE Append(cls, expr)

RECURSIVE EquivalenceClass_extend(_, _)
EquivalenceClass_extend(cls, other) ==
    IF other = <<>> THEN cls
    ELSE EquivalenceClass_extend(push(cls, Head(other)), Tail(other))

EquivalenceClass_new(exprs) == EquivalenceClass_extend(new_empty, exprs)

\* canonical_expr taking the member inserted last.
canonical_expr_last(cls) == IF cls = <<>> THEN None ELSE cls[Len(cls)]

canonical_expr(cls) == IF cls = <<>> THEN None ELSE cls[1]

contains_any(cls, other) == \E i \in 1..Len(cls) : contains(other, cls[i])

(***************************************************************************)
(* Vec helpers                                                             *)
(***************************************************************************)
\* Vec::swap_remove: the last element takes the place of the removed one.
swap_remove(v, i) ==
    IF i = Len(v) THEN SubSeq(v, 1, Len(v) - 1)
    ELSE SubSeq(v, 1, i - 1) \o <<v[Len(v)]>> \o SubSeq(v, i + 1, Len(v) - 1)

\* retain_nontrivial keeping every class that is not empty.
RECURSIVE retain_nonempty(_)
retain_nonempty(v) ==
    IF v = <<>> THEN <<>>
    ELSE IF Len(Head(v)) > 0 THEN <<Head(v)>> \o retain_nonempty(Tail(v))
         ELSE retain_nonempty(Tail(v))

\* Vec::retain_mut with the predicate cls.len() > 1.
RECURSIVE retain_nontrivial(_)
retain_nontrivial(v) ==
    IF v = <<>> THEN <<>>
    ELSE IF Len(Head(v)) > 1 THEN <<Head(v)>> \o retain_nontrivial(Tail(v))
         ELSE retain_nontrivial(Tail(v))

(***************************************************************************)
(* EquivalenceGroup: mutation                                              *)
(***************************************************************************)
empty == <<>>

\* The scan of add_equal_conditions: the index of the last class that
\* contains expr, 0 when there is none.
find_class(cs, expr) ==
    LET S == {i \in 1..Len(cs) : contains(cs[i], expr)}
    IN  IF S = {} THEN 0 ELSE CHOOSE i \in S : \A j \in S : j <= i

\* add_equal_conditions merging two classes without removing the second.
add_equal_conditions_keep_second(cs, left, right) ==
    LET first_class == find_class(cs, left)
        second_class == find_class(cs, right)
        first_idx == IF first_class > second_class THEN second_class
                     ELSE first_class
        second_idx == IF first_class > second_class THEN first_class
                      ELSE second_class
    IN  IF first_class # 0 /\ second_class # 0
        THEN IF first_class # second_class
             THEN [cs EXCEPT ![first_idx] =
                       EquivalenceClass_extend(cs[first_idx], cs[second_idx])]
             ELSE cs
        ELSE IF first_class # 0
        THEN [cs EXCEPT ![first_class] = push(cs[first_class], right)]
        ELSE IF second_class # 0
        THEN [cs EXCEPT ![second_class] = push(cs[second_class], left)]
        ELSE Append(cs, EquivalenceClass_new(<<left, right>>))

\* add_equal_conditions leaving two classes it should merge as they are.
add_equal_conditions_no_merge(cs, left, right) ==
    LET first_class == find_class(cs, left)
        second_class == find_class(cs, right)
    IN  IF first_class # 0 /\ second_class # 0 THEN cs
        ELSE IF first_class # 0
        THEN [cs EXCEPT ![first_class] = push(cs[first_class], right)]
        ELSE IF second_class # 0
        THEN [cs EXCEPT ![second_class] = push(cs[second_class], left)]
        ELSE Append(cs, EquivalenceClass_new(<<left, right>>))

\* add_equal_conditions without the test first_idx != second_idx.
add_equal_conditions_unchecked(cs, left, right) ==
    LET first_class == find_class(cs, left)
        second_class == find_class(cs, right)
        first_idx == IF first_class > second_class THEN second_class
                     ELSE first_class
        second_idx == IF first_class > second_class THEN first_class
                      ELSE second_class
    IN  IF first_class # 0 /\ second_class # 0
        THEN LET other_class == cs[second_idx]
                 removed == swap_remove(cs, second_idx)
             IN  IF first_idx <= Len(removed)
                 THEN [removed EXCEPT ![first_idx] =
                           EquivalenceClass_extend(removed[first_idx],
                                                   other_class)]
                 ELSE removed
        ELSE IF first_class # 0
        THEN [cs EXCEPT ![first_class] = push(cs[first_class], right)]
        ELSE IF second_class # 0
        THEN [cs EXCEPT ![second_class] = push(cs[second_class], left)]
        ELSE Append(cs, EquivalenceClass_new(<<left, right>>))

\* add_equal_conditions putting the members of the removed class in front of
\* those of the class that stays.
add_equal_conditions_other_first(cs, left, right) ==
    LET first_class == find_class(cs, left)
        second_class == find_class(cs, right)
        first_idx == IF first_class > second_class THEN second_class
                     ELSE first_class
        second_idx == IF first_class > second_class THEN first_class
                      ELSE second_class
    IN  IF first_class # 0 /\ second_class # 0
        THEN IF first_class # second_class
             THEN LET other_class == cs[second_idx]
                      removed == swap_remove(cs, second_idx)
                  IN  [removed EXCEPT ![first_idx] =
                           EquivalenceClass_extend(other_class,
                                                   removed[first_idx])]
             ELSE cs
        ELSE IF first_class # 0
        THEN [cs EXCEPT ![first_class] = push(cs[first_class], right)]
        ELSE IF second_class # 0
        THEN [cs EXCEPT ![second_class] = push(cs[second_class], left)]
        ELSE Append(cs, EquivalenceClass_new(<<left, right>>))

\* add_equal_conditions rebuilding the class that receives a new expression
\* from its canonical expression and the new one.
add_equal_conditions_truncating(cs, left, right) ==
    LET first_class == find_class(cs, left)
        second_class == find_class(cs, right)
        first_idx == IF first_class > second_class THEN second_class
                     ELSE first_class
        second_idx == IF first_class > second_class THEN first_class
                      ELSE second_class
    IN  IF first_class # 0 /\ second_class # 0
        THEN IF first_class # second_class
             THEN LET other_class == cs[second_idx]
                      removed == swap_remove(cs, second_idx)
                  IN  [removed EXCEPT ![first_idx] =
                           EquivalenceClass_extend(removed[first_idx],
                                                   other_class)]
             ELSE cs
        ELSE IF first_class # 0
        THEN [cs EXCEPT ![first_class] =
                  EquivalenceClass_new(<<cs[first_class][1], right>>)]
        ELSE IF second_class # 0
        THEN [cs EXCEPT ![second_class] =
                  EquivalenceClass_new(<<cs[second_class][1], left>>)]
        ELSE Append(cs, EquivalenceClass_new(<<left, right>>))

add_equal_conditions(cs, left, right) ==
    LET first_class == find_class(cs, left)
        second_class == find_class(cs, right)
        first_idx == IF first_class > second_class THEN second_class
                     ELSE first_class
        second_idx == IF first_class > second_class THEN first_class
                      ELSE second_class
    IN  IF first_class # 0 /\ second_class # 0
        THEN IF first_class # second_class
             THEN LET other_class == cs[second_idx]
                      removed == swap_remove(cs, second_idx)
                  IN  [removed EXCEPT ![first_idx] =
                           EquivalenceClass_extend(removed[first_idx],
                                                   other_class)]
             ELSE cs
        ELSE IF first_class # 0
        THEN [cs EXCEPT ![first_class] = push(cs[first_class], right)]
        ELSE IF second_class # 0
        THEN [cs EXCEPT ![second_class] = push(cs[second_class], left)]
        ELSE Append(cs, EquivalenceClass_new(<<left, right>>))

\* bridge_scan moving on after a merge, past the class that swap_remove put
\* at next_idx.
RECURSIVE bridge_scan_skip(_, _, _)
bridge_scan_skip(cs, idx, next_idx) ==
    IF next_idx > Len(cs) THEN cs
    ELSE IF contains_any(cs[idx], cs[next_idx])
    THEN LET extension == cs[next_idx]
             removed == swap_remove(cs, next_idx)
         IN  bridge_scan_skip([removed EXCEPT ![idx] =
                                   EquivalenceClass_extend(removed[idx],
                                                           extension)],
                              idx, next_idx + 1)
    ELSE bridge_scan_skip(cs, idx, next_idx + 1)

\* The inner while loop of bridge_classes, from next_idx on.
RECURSIVE bridge_scan(_, _, _)
bridge_scan(cs, idx, next_idx) ==
    IF next_idx > Len(cs) THEN cs
    ELSE IF contains_any(cs[idx], cs[next_idx])
    THEN LET extension == cs[next_idx]
             removed == swap_remove(cs, next_idx)
         IN  bridge_scan([removed EXCEPT ![idx] =
                              EquivalenceClass_extend(removed[idx], extension)],
                         idx, next_idx)
    ELSE bridge_scan(cs, idx, next_idx + 1)

\* bridge_from moving on to the next class even when the scan enlarged
\* the class at idx.
RECURSIVE bridge_from_no_rescan(_, _)
bridge_from_no_rescan(cs, idx) ==
    IF idx > Len(cs) THEN cs
    ELSE bridge_from_no_rescan(bridge_scan(cs, idx, idx + 1), idx + 1)

\* The outer while loop of bridge_classes, from idx on.
RECURSIVE bridge_from(_, _)
bridge_from(cs, idx) ==
    IF idx > Len(cs) THEN cs
    ELSE LET start_size == Len(cs[idx])
             scanned == bridge_scan(cs, idx, idx + 1)
         IN  IF Len(scanned[idx]) > start_size
             THEN bridge_from(scanned, idx)
             ELSE bridge_from(scanned, idx + 1)

bridge_classes(cs) == bridge_from(cs, 1)

remove_redundant_entries(cs) == bridge_classes(retain_nontrivial(cs))

EquivalenceGroup_new(cs) == remove_redundant_entries(cs)

EquivalenceGroup_extend(cs, other) == remove_redundant_entries(cs \o other)

(***************************************************************************)
(* Tree rewriting                                                          *)
(***************************************************************************)
\* The closure normalize_expr hands to transform: the first class that
\* contains the node decides, and the node becomes its canonical member.
normalize_node(cs, expr) ==
    LET S == {i \in 1..Len(cs) : contains(cs[i], expr)}
    IN  IF S # {}
        THEN [transformed |-> TRUE,
              data |-> canonical_expr(cs[CHOOSE i \in S : \A j \in S : i <= j])]
        ELSE [transformed |-> FALSE, data |-> expr]

\* The closure join hands to transform: a column moves right by left_size.
shift_column(left_size, expr) ==
    IF type_id(expr) = "Column"
    THEN [transformed |-> TRUE,
          data |-> Column(expr.label, expr.index + left_size)]
    ELSE [transformed |-> FALSE, data |-> expr]

\* A closure is [fn |-> "normalize", cs |-> classes] or
\* [fn |-> "shift", left_size |-> n].
apply_closure(f, expr) ==
    IF f.fn = "normalize" THEN normalize_node(f.cs, expr)
    ELSE shift_column(f.left_size, expr)

\* TreeNode::transform: a node the closure rewrites is replaced whole and
\* its former children are not visited; otherwise the children are rewritten.
RECURSIVE transform(_, _)
transform(expr, f) ==
    LET t == apply_closure(f, expr)
    IN  IF t.transformed THEN t.data
        ELSE with_new_children(expr,
                 [i \in 1..Len(children(expr)) |->
                      transform(children(expr)[i], f)])

add_offset_to_expr(expr, offset) ==
    transform(expr, [fn |-> "shift", left_size |-> offset])

with_offset(cls, offset) ==
    EquivalenceClass_new([i \in 1..Len(cls) |-> add_offset_to_expr(cls[i], offset)])

(***************************************************************************)
(* EquivalenceGroup: query and rewrite                                     *)
(***************************************************************************)
normalize_expr(cs, expr) == transform(expr, [fn |-> "normalize", cs |-> cs])

\* The first class that contains expr; the empty class stands for no class.
get_equivalence_class(cs, expr) ==
    LET S == {i \in 1..Len(cs) : contains(cs[i], expr)}
    IN  IF S = {} THEN new_empty
        ELSE cs[CHOOSE i \in S : \A j \in S : i <= j]

\* exprs_equal asking for one pair of equal children, not for all.
RECURSIVE exprs_equal_any(_, _, _)
exprs_equal_any(cs, left, right) ==
    LET left_children == children(left)
        right_children == children(right)
    IN  IF left = right THEN TRUE
        ELSE IF contains(get_equivalence_class(cs, left), right) THEN TRUE
        ELSE IF contains(get_equivalence_class(cs, right), left) THEN TRUE
        ELSE IF left_children = <<>> \/ right_children = <<>> THEN FALSE
        ELSE IF type_id(left) # type_id(right) THEN FALSE
        ELSE IF Len(left_children) # Len(right_children) THEN FALSE
        ELSE \E i \in 1..Len(left_children) :
                 exprs_equal_any(cs, left_children[i], right_children[i])

RECURSIVE exprs_equal(_, _, _)
exprs_equal(cs, left, right) ==
    LET left_children == children(left)
        right_children == children(right)
    IN  IF left = right THEN TRUE
        ELSE IF contains(get_equivalence_class(cs, left), right) THEN TRUE
        ELSE IF contains(get_equivalence_class(cs, right), left) THEN TRUE
        ELSE IF left_children = <<>> \/ right_children = <<>> THEN FALSE
        ELSE IF type_id(left) # type_id(right) THEN FALSE
        ELSE IF Len(left_children) # Len(right_children) THEN FALSE
        ELSE \A i \in 1..Len(left_children) :
                 exprs_equal(cs, left_children[i], right_children[i])

(***************************************************************************)
(* Projection.  A ProjectionMapping is a sequence of <<source, target>>.   *)
(***************************************************************************)
\* ProjectionMapping::target_expr: the target of the first pair whose source
\* is structurally equal to expr.
target_expr(mapping, expr) ==
    LET S == {i \in 1..Len(mapping) : mapping[i][1] = expr}
    IN  IF S = {} THEN None
        ELSE mapping[CHOOSE i \in S : \A j \in S : i <= j][2]

\* project_expr consulting the classes before the exact match.
RECURSIVE project_expr_class_first(_, _, _)
project_expr_class_first(cs, mapping, expr) ==
    LET S == {i \in 1..Len(mapping) :
                  contains(get_equivalence_class(cs, mapping[i][1]), expr)}
        projected == [i \in 1..Len(children(expr)) |->
                          project_expr_class_first(cs, mapping, children(expr)[i])]
    IN  IF S # {} THEN mapping[CHOOSE i \in S : \A j \in S : i <= j][2]
        ELSE IF target_expr(mapping, expr) # None THEN target_expr(mapping, expr)
        ELSE IF children(expr) = <<>> THEN None
        ELSE IF \E i \in 1..Len(projected) : projected[i] = None THEN None
        ELSE with_new_children(expr, projected)

\* project_expr rebuilding a node from the children that did project.
RECURSIVE project_expr_partial(_, _, _)
project_expr_partial(cs, mapping, expr) ==
    LET S == {i \in 1..Len(mapping) :
                  contains(get_equivalence_class(cs, mapping[i][1]), expr)}
        projected == [i \in 1..Len(children(expr)) |->
                          project_expr_partial(cs, mapping, children(expr)[i])]
        some == SelectSeq(projected, LAMBDA e : e # None)
    IN  IF target_expr(mapping, expr) # None THEN target_expr(mapping, expr)
        ELSE IF S # {} THEN mapping[CHOOSE i \in S : \A j \in S : i <= j][2]
        ELSE IF children(expr) = <<>> THEN None
        ELSE IF some = <<>> THEN None
        ELSE with_new_children(expr, some)

RECURSIVE project_expr(_, _, _)
project_expr(cs, mapping, expr) ==
    LET S == {i \in 1..Len(mapping) :
                  contains(get_equivalence_class(cs, mapping[i][1]), expr)}
        projected == [i \in 1..Len(children(expr)) |->
                          project_expr(cs, mapping, children(expr)[i])]
    IN  IF target_expr(mapping, expr) # None THEN target_expr(mapping, expr)
        ELSE IF S # {} THEN mapping[CHOOSE i \in S : \A j \in S : i <= j][2]
        ELSE IF children(expr) = <<>> THEN None
        ELSE IF \E i \in 1..Len(projected) : projected[i] = None THEN None
        ELSE with_new_children(expr, projected)

\* Iterator::filter_map over a sequence of Option values: the Some ones.
RECURSIVE filter_some(_)
filter_some(v) ==
    IF v = <<>> THEN <<>>
    ELSE IF Head(v) = None THEN filter_some(Tail(v))
         ELSE <<Head(v)>> \o filter_some(Tail(v))

\* projected_classes keeping a class only when more than two of its members
\* project.
RECURSIVE projected_classes_over_two(_, _, _)
projected_classes_over_two(cs, mapping, rest) ==
    IF rest = <<>> THEN <<>>
    ELSE LET cls == Head(rest)
             new_class == filter_some([i \in 1..Len(cls) |->
                                           project_expr(cs, mapping, cls[i])])
         IN  (IF Len(new_class) > 2 THEN <<EquivalenceClass_new(new_class)>>
              ELSE <<>>)
             \o projected_classes_over_two(cs, mapping, Tail(rest))

\* The carried-over classes of project.
RECURSIVE projected_classes(_, _, _)
projected_classes(cs, mapping, rest) ==
    IF rest = <<>> THEN <<>>
    ELSE LET cls == Head(rest)
             new_class == filter_some([i \in 1..Len(cls) |->
                                           project_expr(cs, mapping, cls[i])])
         IN  (IF Len(new_class) > 1 THEN <<EquivalenceClass_new(new_class)>>
              ELSE <<>>)
             \o projected_classes(cs, mapping, Tail(rest))

\* The IndexMap of project after the pairs of `rest` are entered: a sequence
\* of [key, cls] in the order the keys were first seen.
RECURSIVE new_classes(_, _, _)
new_classes(cs, rest, map) ==
    IF rest = <<>> THEN map
    ELSE LET normalized_expr == normalize_expr(cs, Head(rest)[1])
             target == Head(rest)[2]
             S == {i \in 1..Len(map) : map[i].key = normalized_expr}
         IN  new_classes(cs, Tail(rest),
                 IF S = {}
                 THEN Append(map, [key |-> normalized_expr,
                                   cls |-> push(new_empty, target)])
                 ELSE LET i == CHOOSE j \in S : TRUE
                      IN  [map EXCEPT ![i].cls = push(map[i].cls, target)])

project(cs, mapping) ==
    LET map == new_classes(cs, mapping, <<>>)
    IN  EquivalenceGroup_new(
            projected_classes(cs, mapping, cs)
            \o retain_nontrivial([i \in 1..Len(map) |-> map[i].cls]))

(***************************************************************************)
(* Join                                                                    *)
(***************************************************************************)
JoinType == {"Inner", "Left", "Right", "Full", "LeftSemi", "LeftAnti",
             "LeftMark", "RightSemi", "RightAnti"}

\* The loop over the on pairs with the right side left where it was.
RECURSIVE add_on_conditions_unshifted(_, _, _)
add_on_conditions_unshifted(result, left_size, on) ==
    IF on = <<>> THEN result
    ELSE add_on_conditions_unshifted(
             add_equal_conditions(result, Head(on)[1], Head(on)[2]),
             left_size, Tail(on))

\* The loop over the on pairs of an inner join.
RECURSIVE add_on_conditions(_, _, _)
add_on_conditions(result, left_size, on) ==
    IF on = <<>> THEN result
    ELSE LET new_lhs == Head(on)[1]
             new_rhs == transform(Head(on)[2],
                                  [fn |-> "shift", left_size |-> left_size])
         IN  add_on_conditions(add_equal_conditions(result, new_lhs, new_rhs),
                               left_size, Tail(on))

\* join giving the offset right group for the right semi and anti joins.
join_right_offset(cs, right_equivalences, join_type, left_size, on) ==
    IF join_type \in {"LeftSemi", "LeftAnti", "LeftMark"} THEN cs
    ELSE EquivalenceGroup_new(
             [i \in 1..Len(right_equivalences) |->
                  with_offset(right_equivalences[i], left_size)])

\* join adding the on pairs for the outer joins as for the inner join.
join_outer_on(cs, right_equivalences, join_type, left_size, on) ==
    IF join_type \in {"Inner", "Left", "Full", "Right"}
    THEN add_on_conditions(
             EquivalenceGroup_new(
                 cs \o [i \in 1..Len(right_equivalences) |->
                            with_offset(right_equivalences[i], left_size)]),
             left_size, on)
    ELSE IF join_type \in {"LeftSemi", "LeftAnti", "LeftMark"} THEN cs
    ELSE right_equivalences

join(cs, right_equivalences, join_type, left_size, on) ==
    IF join_type \in {"Inner", "Left", "Full", "Right"}
    THEN LET result ==
                 EquivalenceGroup_new(
                     cs \o [i \in 1..Len(right_equivalences) |->
                                with_offset(right_equivalences[i], left_size)])
         IN  IF join_type = "Inner"
             THEN add_on_conditions(result, left_size, on)
             ELSE result
    ELSE IF join_type \in {"LeftSemi", "LeftAnti", "LeftMark"} THEN cs
    ELSE right_equivalences

(***************************************************************************)
(* Inputs                                                                  *)
(***************************************************************************)
col_a == Column("a", 0)
col_b == Column("b", 1)
col_c == Column("c", 2)
col_x == Column("x", 2)
col_y == Column("y", 3)
lit_1 == Literal("1")
a_plus_c == BinaryExpr(col_a, "+", col_c)
b_plus_c == BinaryExpr(col_b, "+", col_c)

\* At most MaxOps mutating operations are applied to a group.
MaxOps == 3

\* The operands of add_equal_conditions.
AddExprs == {col_a, col_b, col_c, a_plus_c}

\* Vectors of expressions that classes are built from, and lists of them.
GroupVecLists ==
    {<<>>,
     <<<<col_a, col_b>>>>,
     <<<<col_a, col_a, col_b>>, <<col_c, col_c>>>>,
     <<<<col_a, col_b>>, <<col_c, lit_1>>>>,
     <<<<col_a, col_b>>, <<col_c, lit_1>>, <<col_b, col_c>>>>,
     <<<<col_b, a_plus_c>>, <<col_a, col_c>>>>}

EquivalenceGroup_from(vecs) ==
    EquivalenceGroup_new([i \in 1..Len(vecs) |-> EquivalenceClass_new(vecs[i])])

\* The groups handed to extend and join as the other side.
OtherGroups ==
    {EquivalenceGroup_from(vecs) : vecs \in GroupVecLists}
    \cup {add_equal_conditions(empty, col_b, col_b)}

MappingPairs ==
    {<<col_a, Column("p", 0)>>, <<col_b, Column("q", 1)>>,
     <<a_plus_c, Column("p", 0)>>, <<b_plus_c, Column("q", 1)>>,
     <<col_c, Column("q", 1)>>}

Mappings ==
    {<<>>} \cup {<<p>> : p \in MappingPairs}
    \cup {<<p, q>> : p \in MappingPairs, q \in MappingPairs}

LeftSizes == {3}

OnLists == {<<>>, <<<<lit_1, lit_1>>>>,
            <<<<col_a, col_b>>, <<col_b, col_a>>>>}

\* The right-hand groups of join.
RightGroups ==
    {EquivalenceGroup_from(<<<<col_a, col_b>>>>),
     EquivalenceGroup_from(<<<<col_b, a_plus_c>>, <<col_a, col_c>>>>),
     add_equal_conditions(empty, col_b, col_b)}

(***************************************************************************)
(* The group as a state machine                                            *)
(***************************************************************************)
NoCall == [op |-> "none", args |-> <<>>]

\* No window frame has been built.
NoFrame == [units |-> "none"]

Init ==
    /\ classes = empty
    /\ added = {}
    /\ nops = 0
    /\ call = NoCall
    /\ window_frame = NoFrame
    /\ order_by = <<>>

New(vecs) ==
    /\ nops < MaxOps
    /\ classes' = EquivalenceGroup_from(vecs)
    /\ added' = {}
    /\ nops' = nops + 1
    /\ call' = [op |-> "new", args |-> <<>>]
    /\ UNCHANGED <<window_frame, order_by>>

AddEqualConditions(left, right) ==
    /\ nops < MaxOps
    /\ classes' = add_equal_conditions(classes, left, right)
    /\ added' = added \cup {<<left, right>>}
    /\ nops' = nops + 1
    /\ call' = [op |-> "add_equal_conditions", args |-> <<left, right>>]
    /\ UNCHANGED <<window_frame, order_by>>

Extend(other) ==
    /\ nops < MaxOps
    /\ classes' = EquivalenceGroup_extend(classes, other)
    /\ added' = {}
    /\ nops' = nops + 1
    /\ call' = [op |-> "extend", args |-> <<>>]
    /\ UNCHANGED <<window_frame, order_by>>

Project(mapping) ==
    /\ nops < MaxOps
    /\ classes' = project(classes, mapping)
    /\ added' = {}
    /\ nops' = nops + 1
    /\ call' = [op |-> "project", args |-> <<>>]
    /\ UNCHANGED <<window_frame, order_by>>

Join(right_equivalences, join_type, left_size, on) ==
    /\ nops < MaxOps
    /\ classes' = join(classes, right_equivalences, join_type, left_size, on)
    /\ added' = {}
    /\ nops' = nops + 1
    /\ call' = [op |-> "join", args |-> <<>>]
    /\ UNCHANGED <<window_frame, order_by>>

Next ==
    \/ \E vecs \in GroupVecLists : New(vecs)
    \/ \E left \in AddExprs, right \in AddExprs : AddEqualConditions(left, right)
    \/ \E other \in OtherGroups : Extend(other)
    \/ \E mapping \in Mappings : Project(mapping)
    \/ \E right_equivalences \in RightGroups, join_type \in JoinType,
          left_size \in LeftSizes, on \in OnLists :
           Join(right_equivalences, join_type, left_size, on)

Spec == Init /\ [][Next]_vars

\* The group built from empty() by add_equal_conditions alone.
NextAdd ==
    \E left \in AddExprs, right \in AddExprs : AddEqualConditions(left, right)

SpecAdd == Init /\ [][NextAdd]_vars

(***************************************************************************)
(* Construction: EquivalenceGroup::new and bridge_classes                  *)
(***************************************************************************)
\* A group is built from at most MaxClasses classes.
MaxClasses == 3

lit(i) == Literal(<<"1", "2", "3", "4">>[i])

\* The vectors handed to EquivalenceClass::new: empty, one value, one value
\* twice, two values, a repeated value before another one, three values.
NewVecs ==
    {<<>>}
    \cup {<<lit(i)>> : i \in 1..4}
    \cup {<<lit(p[1]), lit(p[2])>> : p \in {q \in (1..4) \X (1..4) : q[1] <= q[2]}}
    \cup {<<lit(p[1]), lit(p[1]), lit(p[2])>> :
              p \in {q \in (1..4) \X (1..4) : q[1] < q[2]}}
    \cup {<<lit(i), lit(i + 1), lit(i + 2)>> : i \in 1..2}
    \cup {<<lit(1), lit(2), lit(4)>>, <<lit(1), lit(3), lit(4)>>}

\* The arguments of test_bridge_groups.
BridgeTestCases ==
    {<<<<Literal("1"), Literal("2"), Literal("3")>>,
       <<Literal("2"), Literal("4"), Literal("5")>>,
       <<Literal("11"), Literal("12"), Literal("9")>>,
       <<Literal("7"), Literal("6"), Literal("5")>>>>,
     <<<<Literal("1"), Literal("2"), Literal("3")>>,
       <<Literal("3"), Literal("4"), Literal("5")>>,
       <<Literal("9"), Literal("8"), Literal("7")>>,
       <<Literal("7"), Literal("6"), Literal("5")>>>>}

NewVecLists ==
    UNION {[1..n -> NewVecs] : n \in 0..MaxClasses} \cup BridgeTestCases

\* The state inside EquivalenceGroup::new once `Self { classes }` is built
\* from classes that EquivalenceClass::new made of the vectors.
InitNew ==
    \E vecs \in NewVecLists :
        /\ classes = [i \in 1..Len(vecs) |-> EquivalenceClass_new(vecs[i])]
        /\ added = {}
        /\ nops = 0
        /\ call = [op |-> "classes", args |-> vecs]
        /\ window_frame = NoFrame
        /\ order_by = <<>>

\* The rest of EquivalenceGroup::new.
RemoveRedundantEntries ==
    /\ call.op = "classes"
    /\ classes' = remove_redundant_entries(classes)
    /\ call' = [op |-> "new", args |-> call.args]
    /\ UNCHANGED <<added, nops, window_frame, order_by>>

BridgeClasses ==
    /\ classes' = bridge_classes(classes)
    /\ call' = [op |-> "bridge_classes", args |-> <<classes>>]
    /\ UNCHANGED <<added, nops, window_frame, order_by>>

NextNew == RemoveRedundantEntries \/ BridgeClasses

SpecNew == InitNew /\ [][NextNew]_vars

(***************************************************************************)
(* Queries on a group                                                      *)
(***************************************************************************)
a_plus_b == BinaryExpr(col_a, "+", col_b)

\* The operands of the equalities the queried groups are built from.
QueryAddExprs == {col_a, col_b, col_x, col_y, a_plus_b}

QueryPairs == QueryAddExprs \X QueryAddExprs

\* The groups queried: empty(), and empty() after two add_equal_conditions.
QueryGroups ==
    {empty}
    \cup {add_equal_conditions(add_equal_conditions(empty, p[1], p[2]),
                               q[1], q[2]) : p \in QueryPairs, q \in QueryPairs}

\* The expressions queried: leaves, sums and differences, function calls of
\* one and two arguments, and products of a sum or difference.
QueryExprs ==
    {col_a, col_b, col_x, col_y, lit_1}
    \cup {BinaryExpr(l, op, r) : l \in {col_a, col_x},
                                 r \in {col_a, col_b, col_y, lit_1},
                                 op \in {"+", "-"}}
    \cup {ScalarFunctionExpr("f", args) :
              args \in {<<col_a>>, <<col_x>>, <<col_a, col_b>>,
                        <<col_x, col_y>>}}
    \cup {BinaryExpr(BinaryExpr(l, op, r), "*", lit_1) :
              l \in {col_a, col_x}, r \in {col_b, col_y}, op \in {"+", "-"}}

InitQuery ==
    /\ classes \in QueryGroups
    /\ added = {}
    /\ nops = 0
    /\ call = NoCall
    /\ window_frame = NoFrame
    /\ order_by = <<>>

\* A query reads the group and leaves it as it is; one query is followed
\* per behaviour.
NormalizeExpr(expr) ==
    /\ call = NoCall
    /\ call' = [op |-> "normalize_expr", args |-> <<expr>>,
                ret |-> normalize_expr(classes, expr)]
    /\ UNCHANGED <<classes, added, nops, window_frame, order_by>>

ExprsEqual(left, right) ==
    /\ call = NoCall
    /\ call' = [op |-> "exprs_equal", args |-> <<left, right>>,
                ret |-> exprs_equal(classes, left, right)]
    /\ UNCHANGED <<classes, added, nops, window_frame, order_by>>

NextQuery ==
    \/ \E expr \in QueryExprs : NormalizeExpr(expr)
    \/ \E left \in QueryExprs, right \in QueryExprs : ExprsEqual(left, right)

SpecQuery == InitQuery /\ [][NextQuery]_vars

(***************************************************************************)
(* Projection of a group and of one expression                             *)
(***************************************************************************)
a_minus_c == BinaryExpr(col_a, "-", col_c)

\* The groups projected: empty(), a = b of test_project_classes, a = b
\* followed by one more equality, and the one class [a + c, a - c, y].
ProjectGroups ==
    {empty,
     add_equal_conditions(empty, col_a, col_b),
     add_equal_conditions(add_equal_conditions(empty, col_a, col_b),
                          col_y, b_plus_c),
     add_equal_conditions(add_equal_conditions(empty, col_a, col_b),
                          col_c, lit_1),
     add_equal_conditions(add_equal_conditions(empty, a_plus_c, a_minus_c),
                          a_plus_c, col_y)}

\* The sources of the mappings: columns, a + c and b + c of
\* test_project_classes, a - c, and products over them.
ProjectSources ==
    {col_a, col_b, col_c, col_y, a_plus_c, b_plus_c, a_minus_c,
     BinaryExpr(b_plus_c, "*", b_plus_c), BinaryExpr(a_plus_c, "*", col_y)}

\* The columns of the projected schema.
ProjectTargets == <<Column("p", 0), Column("q", 1)>>

\* Mappings of at most two pairs; two pairs may share their target.
ProjectMappings ==
    {<<>>}
    \cup {<<<<s, ProjectTargets[1]>>>> : s \in ProjectSources}
    \cup {<<<<s1, ProjectTargets[1]>>, <<s2, ProjectTargets[k]>>>> :
              s1 \in ProjectSources, s2 \in ProjectSources, k \in 1..2}

\* The expressions projected: the sources, and nodes over them.
ProjectExprs ==
    ProjectSources
    \cup {lit_1, BinaryExpr(col_a, "+", col_b), BinaryExpr(col_b, "-", col_y),
          BinaryExpr(col_c, "+", lit_1),
          ScalarFunctionExpr("f", <<col_a, a_plus_c, col_b>>),
          ScalarFunctionExpr("f", <<col_b, col_y>>),
          ScalarFunctionExpr("f", <<>>)}

InitProject ==
    /\ classes \in ProjectGroups
    /\ added = {}
    /\ nops = 0
    /\ call = NoCall
    /\ window_frame = NoFrame
    /\ order_by = <<>>

ProjectExpr(mapping, expr) ==
    /\ call = NoCall
    /\ call' = [op |-> "project_expr", args |-> <<mapping, expr>>,
                ret |-> project_expr(classes, mapping, expr)]
    /\ UNCHANGED <<classes, added, nops, window_frame, order_by>>

\* project returns a new group and leaves self as it is.
ProjectClasses(mapping) ==
    /\ call = NoCall
    /\ call' = [op |-> "project", args |-> <<mapping>>,
                ret |-> project(classes, mapping)]
    /\ UNCHANGED <<classes, added, nops, window_frame, order_by>>

NextProject ==
    \/ \E mapping \in ProjectMappings, expr \in ProjectExprs :
           ProjectExpr(mapping, expr)
    \/ \E mapping \in ProjectMappings : ProjectClasses(mapping)

SpecProject == InitProject /\ [][NextProject]_vars

(***************************************************************************)
(* Join of two groups                                                      *)
(***************************************************************************)
\* The left groups of join.
JoinLeftGroups == {EquivalenceGroup_from(vecs) : vecs \in GroupVecLists}

\* The right groups of join, over the columns of the right schema.
JoinRightGroups ==
    {empty,
     EquivalenceGroup_from(<<<<col_a, col_b>>>>),
     EquivalenceGroup_from(<<<<col_b, a_plus_c>>, <<col_a, col_c>>>>)}

\* The width of the left schema.
JoinLeftSizes == {0, 3}

\* The on pairs: a left expression and a right expression, the right one
\* over the columns of the right schema.
JoinOnLists ==
    {<<>>, <<<<col_a, col_a>>>>, <<<<lit_1, lit_1>>>>,
     <<<<col_a, col_b>>, <<col_b, col_a>>>>,
     <<<<col_c, a_plus_c>>>>,
     <<<<a_plus_c, col_c>>, <<col_b, col_b>>>>}

InitJoin ==
    /\ classes \in JoinLeftGroups
    /\ added = {}
    /\ nops = 0
    /\ call = NoCall
    /\ window_frame = NoFrame
    /\ order_by = <<>>

\* join returns a new group and leaves both sides as they are.
JoinGroups(right_equivalences, join_type, left_size, on) ==
    /\ call = NoCall
    /\ call' = [op |-> "join",
                args |-> <<right_equivalences, join_type, left_size, on>>,
                ret |-> join(classes, right_equivalences, join_type,
                             left_size, on)]
    /\ UNCHANGED <<classes, added, nops, window_frame, order_by>>

NextJoin ==
    \E right_equivalences \in JoinRightGroups, join_type \in JoinType,
       left_size \in JoinLeftSizes, on \in JoinOnLists :
        JoinGroups(right_equivalences, join_type, left_size, on)

SpecJoin == InitJoin /\ [][NextJoin]_vars

(***************************************************************************)
(* Window frames.  A text (a Rust String) is the sequence of its           *)
(* characters.  An Option is None or the value itself.  A Result is        *)
(* Ok(value) or an error record [ok, error, message].                      *)
(***************************************************************************)
Ok(value) == [ok |-> TRUE, value |-> value]

plan_err(message) == [ok |-> FALSE, error |-> "Plan", message |-> message]

sql_err(message) == [ok |-> FALSE, error |-> "SQL", message |-> message]

\* ScalarValue::UInt64(None), ScalarValue::UInt64(Some(n)) and
\* ScalarValue::Utf8(Some(s)).
UInt64None == [type |-> "UInt64", null |-> TRUE]

UInt64(n) == [type |-> "UInt64", null |-> FALSE, n |-> n]

Utf8(s) == [type |-> "Utf8", null |-> FALSE, s |-> s]

is_null(value) == value.null

data_type(value) == value.type

Digits == <<"0", "1", "2", "3", "4", "5", "6", "7", "8", "9">>

is_digit(c) == \E d \in 1..Len(Digits) : Digits[d] = c

digit_value(c) == (CHOOSE d \in 1..Len(Digits) : Digits[d] = c) - 1

\* The number a text of digits denotes, read from the left.
RECURSIVE parse_digits(_, _)
parse_digits(text, acc) ==
    IF text = <<>> THEN acc
    ELSE parse_digits(Tail(text), acc * Len(Digits) + digit_value(Head(text)))

\* ScalarValue::try_from_string(value, &DataType::UInt64): the unsigned
\* integer the text denotes, an error for any other text.
try_from_string(value, target_type) ==
    IF /\ target_type = "UInt64"
       /\ value # <<>>
       /\ \A i \in 1..Len(value) : is_digit(value[i])
    THEN Ok(UInt64(parse_digits(value, 0)))
    ELSE [ok |-> FALSE, error |-> "ArrowError", message |-> "Cast error"]

\* ScalarValue::new_zero: the zero of a numeric type, an error for a type
\* that has no zero, as a text type.
new_zero(datatype) ==
    IF datatype = "UInt64" THEN Ok(UInt64(0))
    ELSE [ok |-> FALSE, error |-> "NotImplemented",
          message |-> "Can't create a zero scalar from data_type"]

\* PartialEq and PartialOrd of ScalarValue against the zero of its type.
eq(value, zero) == value = zero

gt(value, zero) ==
    /\ data_type(value) = "UInt64"
    /\ data_type(zero) = "UInt64"
    /\ ~is_null(value)
    /\ ~is_null(zero)
    /\ value.n > zero.n

\* WindowFrameBound
Preceding(value) == [kind |-> "Preceding", value |-> value]

Following(value) == [kind |-> "Following", value |-> value]

CurrentRow == [kind |-> "CurrentRow"]

is_unbounded(bound) ==
    IF bound.kind = "CurrentRow" THEN FALSE ELSE is_null(bound.value)

\* WindowFrameUnits and ast::WindowFrameUnits
WindowFrameUnits == {"Rows", "Range", "Groups"}

ast_WindowFrameUnits == {"ROWS", "RANGE", "GROUPS"}

WindowFrameUnits_from(value) ==
    CASE value = "RANGE" -> "Range"
      [] value = "GROUPS" -> "Groups"
      [] value = "ROWS" -> "Rows"

\* ast::DateTimeField, written as Display writes it.
DateTimeField(name) == [kind |-> "DateTimeField", name |-> name]

\* ast::Expr: Value(Number(value, long)), Value(SingleQuotedString(item)),
\* Interval { .. }, and Identifier for an expression of any other kind.
\* The Option fields of an Interval are None or a record.
ast_Number(value, long) == [kind |-> "Number", value |-> value, long |-> long]

ast_SingleQuotedString(item) == [kind |-> "SingleQuotedString", value |-> item]

ast_Identifier(name) == [kind |-> "Identifier", value |-> name]

ast_Interval(value, leading_field, leading_precision, last_field, fractional_seconds_precision) ==
    [kind |-> "Interval", value |-> value, leading_field |-> leading_field,
     leading_precision |-> leading_precision, last_field |-> last_field,
     fractional_seconds_precision |-> fractional_seconds_precision]

\* ast::WindowFrameBound: the offset is None for UNBOUNDED.
ast_Preceding(offset) == [kind |-> "Preceding", offset |-> offset]

ast_Following(offset) == [kind |-> "Following", offset |-> offset]

ast_CurrentRow == [kind |-> "CurrentRow", offset |-> None]

\* ast::WindowFrame: end_bound is None when the frame has no BETWEEN.
ast_WindowFrame(units, start_bound, end_bound) ==
    [units |-> units, start_bound |-> start_bound, end_bound |-> end_bound]

\* convert_frame_bound_to_scalar_value accepting an interval of any
\* qualifiers for ROWS and GROUPS.
convert_frame_bound_to_scalar_value_any_interval(v, units) ==
    IF units \in {"ROWS", "GROUPS"}
    THEN IF v.kind = "Number" /\ ~v.long
         THEN try_from_string(v.value, "UInt64")
         ELSE IF v.kind = "Interval"
         THEN IF v.value.kind = "SingleQuotedString"
              THEN try_from_string(v.value.value, "UInt64")
              ELSE sql_err("INTERVAL expression cannot be")
         ELSE plan_err("Invalid window frame: frame offsets for ROWS / GROUPS must be non negative integers")
    ELSE IF v.kind = "Number" /\ ~v.long THEN Ok(Utf8(v.value))
         ELSE IF v.kind = "Interval"
         THEN IF v.value.kind = "SingleQuotedString"
              THEN Ok(Utf8(IF v.leading_field # None
                           THEN v.value.value \o <<" ">> \o v.leading_field.name
                           ELSE v.value.value))
              ELSE sql_err("INTERVAL expression cannot be")
         ELSE plan_err("Invalid window frame: frame offsets for RANGE must be either a numeric value, a string value or an interval")

convert_frame_bound_to_scalar_value(v, units) ==
    IF units \in {"ROWS", "GROUPS"}
    THEN IF v.kind = "Number" /\ ~v.long
         THEN try_from_string(v.value, "UInt64")
         ELSE IF /\ v.kind = "Interval"
                 /\ v.leading_field = None
                 /\ v.leading_precision = None
                 /\ v.last_field = None
                 /\ v.fractional_seconds_precision = None
         THEN IF v.value.kind = "SingleQuotedString"
              THEN try_from_string(v.value.value, "UInt64")
              ELSE sql_err("INTERVAL expression cannot be")
         ELSE plan_err("Invalid window frame: frame offsets for ROWS / GROUPS must be non negative integers")
    ELSE IF v.kind = "Number" /\ ~v.long THEN Ok(Utf8(v.value))
         ELSE IF v.kind = "Interval"
         THEN IF v.value.kind = "SingleQuotedString"
              THEN Ok(Utf8(IF v.leading_field # None
                           THEN v.value.value \o <<" ">> \o v.leading_field.name
                           ELSE v.value.value))
              ELSE sql_err("INTERVAL expression cannot be")
         ELSE plan_err("Invalid window frame: frame offsets for RANGE must be either a numeric value, a string value or an interval")

\* WindowFrameBound::try_parse
try_parse(value, units) ==
    CASE value.kind = "Preceding" /\ value.offset # None ->
             LET v == convert_frame_bound_to_scalar_value(value.offset, units)
             IN  IF v.ok THEN Ok(Preceding(v.value)) ELSE v
      [] value.kind = "Preceding" /\ value.offset = None ->
             Ok(Preceding(UInt64None))
      [] value.kind = "Following" /\ value.offset # None ->
             LET v == convert_frame_bound_to_scalar_value(value.offset, units)
             IN  IF v.ok THEN Ok(Following(v.value)) ELSE v
      [] value.kind = "Following" /\ value.offset = None ->
             Ok(Following(UInt64None))
      [] value.kind = "CurrentRow" -> Ok(CurrentRow)

new_bounds(units, start_bound, end_bound) ==
    LET causal ==
            IF units = "Rows"
            THEN IF end_bound.kind = "Following"
                 THEN IF is_null(end_bound.value) THEN FALSE
                      ELSE LET zero == new_zero(data_type(end_bound.value))
                           IN  IF zero.ok THEN eq(end_bound.value, zero.value)
                               ELSE FALSE
                 ELSE TRUE
            ELSE IF end_bound.kind = "Preceding"
                 THEN IF is_null(end_bound.value) THEN TRUE
                      ELSE LET zero == new_zero(data_type(end_bound.value))
                           IN  IF zero.ok THEN gt(end_bound.value, zero.value)
                               ELSE FALSE
                 ELSE FALSE
    IN  [units |-> units, start_bound |-> start_bound,
         end_bound |-> end_bound, causal |-> causal]

\* TryFrom<ast::WindowFrame> accepting every start bound.
try_from_any_start(value) ==
    LET start_bound == try_parse(value.start_bound, value.units)
        end_bound == IF value.end_bound # None
                     THEN try_parse(value.end_bound, value.units)
                     ELSE Ok(CurrentRow)
    IN  IF ~start_bound.ok THEN start_bound
        ELSE IF ~end_bound.ok THEN end_bound
        ELSE IF start_bound.value.kind = "Following"
             THEN Ok(new_bounds(WindowFrameUnits_from(value.units),
                                start_bound.value, end_bound.value))
        ELSE IF /\ end_bound.value.kind = "Preceding"
                /\ is_null(end_bound.value.value)
             THEN plan_err("Invalid window frame: end bound cannot be UNBOUNDED PRECEDING")
        ELSE Ok(new_bounds(WindowFrameUnits_from(value.units),
                           start_bound.value, end_bound.value))

\* TryFrom<ast::WindowFrame>: the end bound is looked at only when the
\* start bound is not a FOLLOWING one.
try_from(value) ==
    LET start_bound == try_parse(value.start_bound, value.units)
        end_bound == IF value.end_bound # None
                     THEN try_parse(value.end_bound, value.units)
                     ELSE Ok(CurrentRow)
    IN  IF ~start_bound.ok THEN start_bound
        ELSE IF ~end_bound.ok THEN end_bound
        ELSE IF start_bound.value.kind = "Following"
             THEN IF is_null(start_bound.value.value)
                  THEN plan_err("Invalid window frame: start bound cannot be UNBOUNDED FOLLOWING")
                  ELSE Ok(new_bounds(WindowFrameUnits_from(value.units),
                                     start_bound.value, end_bound.value))
        ELSE IF /\ end_bound.value.kind = "Preceding"
                /\ is_null(end_bound.value.value)
             THEN plan_err("Invalid window frame: end bound cannot be UNBOUNDED PRECEDING")
        ELSE Ok(new_bounds(WindowFrameUnits_from(value.units),
                           start_bound.value, end_bound.value))

\* One arm of the matches of reverse.
\* Option<bool>, the argument of WindowFrame::new: no ORDER BY, or an
\* ORDER BY that is strict or not.
NoOrderBy == [is_some |-> FALSE]

SomeOrderBy(strict) == [is_some |-> TRUE, strict |-> strict]

\* WindowFrame::new; its argument order_by is named ordering here.
WindowFrame_new(ordering) ==
    IF ordering.is_some
    THEN [units |-> IF ordering.strict THEN "Rows" ELSE "Range",
          start_bound |-> Preceding(UInt64None),
          end_bound |-> CurrentRow,
          causal |-> ordering.strict]
    ELSE [units |-> "Rows",
          start_bound |-> Preceding(UInt64None),
          end_bound |-> Following(UInt64None),
          causal |-> FALSE]

\* reverse_bound leaving PRECEDING and FOLLOWING as they are.
reverse_bound_same(bound) == bound

reverse_bound(bound) ==
    CASE bound.kind = "Preceding" -> Following(bound.value)
      [] bound.kind = "Following" -> Preceding(bound.value)
      [] bound.kind = "CurrentRow" -> CurrentRow

reverse(frame) ==
    new_bounds(frame.units, reverse_bound(frame.end_bound),
               reverse_bound(frame.start_bound))

is_causal(frame) == frame.causal

\* free_range looking at the start bound only.
free_range_start_only(frame) ==
    is_unbounded(frame.start_bound) \/ frame.start_bound = CurrentRow

free_range(frame) ==
    /\ is_unbounded(frame.start_bound) \/ frame.start_bound = CurrentRow
    /\ is_unbounded(frame.end_bound) \/ frame.end_bound = CurrentRow

\* expr.sort(asc, nulls_first), and lit(1u64) of the logical expressions.
Sort(expr, asc, nulls_first) ==
    [expr |-> expr, asc |-> asc, nulls_first |-> nulls_first]

lit_1u64 == [kind |-> "Literal", value |-> UInt64(1)]

\* regularize_order_bys: the Result and the key list it leaves behind.
regularize_order_bys(frame, keys) ==
    IF frame.units = "Range" /\ free_range(frame)
    THEN [result |-> Ok(<<>>),
          order_by |-> IF keys = <<>>
                       THEN Append(keys, Sort(lit_1u64, TRUE, FALSE))
                       ELSE keys]
    ELSE IF frame.units = "Range" /\ Len(keys) # 1
    THEN [result |-> plan_err("RANGE requires exactly one ORDER BY column"),
          order_by |-> keys]
    ELSE IF frame.units = "Groups" /\ keys = <<>>
    THEN [result |-> plan_err("GROUPS requires an ORDER BY clause"),
          order_by |-> keys]
    ELSE [result |-> Ok(<<>>), order_by |-> keys]

\* The offsets of the frame bounds: numbers, 42 and the interval '1' DAY of
\* test_window_frame_bound_creation, intervals without a field, an interval
\* over a number, and an identifier.
AstOffsets ==
    {ast_Number(<<"0">>, FALSE), ast_Number(<<"1">>, FALSE),
     ast_Number(<<"4", "2">>, FALSE), ast_Number(<<"1", ".", "5">>, FALSE),
     ast_Number(<<"1">>, TRUE),
     ast_Interval(ast_SingleQuotedString(<<"1">>),
                  DateTimeField(<<"D", "A", "Y">>), None, None, None),
     ast_Interval(ast_SingleQuotedString(<<"1">>), None, None, None, None),
     ast_Interval(ast_SingleQuotedString(<<"0">>), None, None, None, None),
     ast_Interval(ast_SingleQuotedString(<<"x">>), None, None, None, None),
     ast_Interval(ast_Number(<<"1">>, FALSE), None, None, None, None),
     ast_Identifier(<<"x">>)}

AstBounds ==
    {ast_CurrentRow, ast_Preceding(None), ast_Following(None)}
    \cup {ast_Preceding(v) : v \in AstOffsets}
    \cup {ast_Following(v) : v \in AstOffsets}

AstWindowFrames ==
    {ast_WindowFrame(units, start_bound, end_bound) :
         units \in ast_WindowFrameUnits, start_bound \in AstBounds,
         end_bound \in AstBounds \cup {None}}

\* The values of the bounds handed to new_bounds.
BoundValues ==
    {UInt64None, UInt64(0), UInt64(1), Utf8(<<"0">>), Utf8(<<"1">>),
     Utf8(<<"1", " ", "D", "A", "Y">>)}

Bounds ==
    {CurrentRow} \cup {Preceding(v) : v \in BoundValues}
    \cup {Following(v) : v \in BoundValues}

\* The ORDER BY lists: none, one and two keys.
key_a == Sort([kind |-> "Column", name |-> "a"], TRUE, FALSE)

key_b == Sort([kind |-> "Column", name |-> "b"], FALSE, TRUE)

OrderBys == {<<>>, <<key_a>>, <<key_a, key_b>>}

InitFrame ==
    /\ classes = empty
    /\ added = {}
    /\ nops = 0
    /\ call = NoCall
    /\ window_frame = NoFrame
    /\ order_by \in OrderBys

TryFrom(value) ==
    /\ call = NoCall
    /\ LET ret == try_from(value)
       IN  /\ call' = [op |-> "try_from", args |-> <<value>>, ret |-> ret]
           /\ window_frame' = IF ret.ok THEN ret.value ELSE window_frame
    /\ UNCHANGED <<classes, added, nops, order_by>>

NewBounds(units, start_bound, end_bound) ==
    /\ call = NoCall
    /\ window_frame' = new_bounds(units, start_bound, end_bound)
    /\ call' = [op |-> "new_bounds", args |-> <<units, start_bound, end_bound>>]
    /\ UNCHANGED <<classes, added, nops, order_by>>

NewFrame(ordering) ==
    /\ call = NoCall
    /\ window_frame' = WindowFrame_new(ordering)
    /\ call' = [op |-> "WindowFrame::new", args |-> <<ordering>>]
    /\ UNCHANGED <<classes, added, nops, order_by>>

TryParse(value, units) ==
    /\ call = NoCall
    /\ call' = [op |-> "try_parse", args |-> <<value, units>>,
                ret |-> try_parse(value, units)]
    /\ UNCHANGED <<classes, added, nops, window_frame, order_by>>

Reverse ==
    /\ window_frame # NoFrame
    /\ window_frame' = reverse(window_frame)
    /\ call' = [op |-> "reverse", args |-> <<window_frame>>]
    /\ UNCHANGED <<classes, added, nops, order_by>>

RegularizeOrderBys ==
    /\ window_frame # NoFrame
    /\ LET r == regularize_order_bys(window_frame, order_by)
       IN  /\ order_by' = r.order_by
           /\ call' = [op |-> "regularize_order_bys", args |-> <<order_by>>,
                       ret |-> r.result]
    /\ UNCHANGED <<classes, added, nops, window_frame>>

NextFrame ==
    \/ \E value \in AstWindowFrames : TryFrom(value)
    \/ \E units \in WindowFrameUnits, start_bound \in Bounds,
          end_bound \in Bounds : NewBounds(units, start_bound, end_bound)
    \/ \E ordering \in {NoOrderBy, SomeOrderBy(TRUE), SomeOrderBy(FALSE)} :
           NewFrame(ordering)
    \/ \E value \in AstBounds, units \in ast_WindowFrameUnits :
           TryParse(value, units)
    \/ Reverse
    \/ RegularizeOrderBys

SpecFrame == InitFrame /\ [][NextFrame]_vars

(***************************************************************************)
(* Sort keys.  A LexOrdering is a sequence of PhysicalSortExpr, a          *)
(* LexRequirement a sequence of PhysicalSortRequirement, whose options are *)
(* None or a SortOptions.                                                  *)
(***************************************************************************)
SortOptions(descending, nulls_first) ==
    [descending |-> descending, nulls_first |-> nulls_first]

PhysicalSortExpr(expr, options) == [expr |-> expr, options |-> options]

PhysicalSortRequirement(expr, options) == [expr |-> expr, options |-> options]

\* From<PhysicalSortExpr> for PhysicalSortRequirement: the options become
\* Some(options), which is the options record itself.
PhysicalSortRequirement_from(value) ==
    PhysicalSortRequirement(value.expr, value.options)

\* From<PhysicalSortRequirement> for PhysicalSortExpr: absent options become
\* ascending with nulls last.
PhysicalSortExpr_from(value) ==
    PhysicalSortExpr(value.expr,
                     IF value.options = None THEN SortOptions(FALSE, FALSE)
                     ELSE value.options)

\* LexRequirement::collapse: an entry is kept unless an entry kept before it
\* has the same expression.
RECURSIVE collapse_into(_, _)
collapse_into(output, rest) ==
    IF rest = <<>> THEN output
    ELSE collapse_into(
             IF \E i \in 1..Len(output) : output[i].expr = Head(rest).expr
             THEN output
             ELSE Append(output, Head(rest)),
             Tail(rest))

collapse(reqs) == collapse_into(<<>>, reqs)

normalize_sort_expr(cs, sort_expr) ==
    [sort_expr EXCEPT !.expr = normalize_expr(cs, sort_expr.expr)]

\* normalize_sort_requirement returning the requirement as it was given.
normalize_sort_requirement_as_is(cs, sort_requirement) == sort_requirement

normalize_sort_requirement(cs, sort_requirement) ==
    [sort_requirement EXCEPT !.expr = normalize_expr(cs, sort_requirement.expr)]

normalize_sort_requirements(cs, sort_reqs) ==
    collapse([i \in 1..Len(sort_reqs) |->
                  normalize_sort_requirement(cs, sort_reqs[i])])

normalize_sort_exprs(cs, sort_exprs) ==
    LET sort_reqs == [i \in 1..Len(sort_exprs) |->
                          PhysicalSortRequirement_from(sort_exprs[i])]
        normalized_sort_reqs == normalize_sort_requirements(cs, sort_reqs)
    IN  [i \in 1..Len(normalized_sort_reqs) |->
             PhysicalSortExpr_from(normalized_sort_reqs[i])]

\* A sort key list has at most MaxKeys entries.
MaxKeys == 3

\* The groups the keys are normalized by.
SortGroups ==
    {empty,
     add_equal_conditions(empty, col_a, col_b),
     add_equal_conditions(add_equal_conditions(empty, col_a, col_b),
                          col_c, b_plus_c)}

SortKeyExprs == {col_a, col_b, b_plus_c}

SortExprs ==
    {PhysicalSortExpr(e, o) :
         e \in SortKeyExprs,
         o \in {SortOptions(FALSE, FALSE), SortOptions(TRUE, TRUE)}}

SortRequirements ==
    {PhysicalSortRequirement(e, o) :
         e \in SortKeyExprs,
         o \in {None, SortOptions(FALSE, FALSE), SortOptions(TRUE, TRUE)}}

InitSort ==
    /\ classes \in SortGroups
    /\ added = {}
    /\ nops = 0
    /\ call = NoCall
    /\ window_frame = NoFrame
    /\ order_by = <<>>

NormalizeSortExprs(sort_exprs) ==
    /\ call = NoCall
    /\ call' = [op |-> "normalize_sort_exprs", args |-> <<sort_exprs>>,
                ret |-> normalize_sort_exprs(classes, sort_exprs)]
    /\ UNCHANGED <<classes, added, nops, window_frame, order_by>>

NormalizeSortRequirements(sort_reqs) ==
    /\ call = NoCall
    /\ call' = [op |-> "normalize_sort_requirements", args |-> <<sort_reqs>>,
                ret |-> normalize_sort_requirements(classes, sort_reqs)]
    /\ UNCHANGED <<classes, added, nops, window_frame, order_by>>

NextSort ==
    \/ \E n \in 0..MaxKeys : \E sort_exprs \in [1..n -> SortExprs] :
           NormalizeSortExprs(sort_exprs)
    \/ \E n \in 0..MaxKeys : \E sort_reqs \in [1..n -> SortRequirements] :
           NormalizeSortRequirements(sort_reqs)

SpecSort == InitSort /\ [][NextSort]_vars

(***************************************************************************)
(* One EquivalenceClass under push and extend: classes holds that class    *)
(* alone.                                                                  *)
(***************************************************************************)
ClassExprs == {col_a, col_b, col_c, a_plus_c}

\* The vectors a class is made of and extended by.
ClassVecs ==
    {<<>>, <<col_a>>, <<col_b, col_a>>, <<col_a, col_a, col_b>>,
     <<col_c, a_plus_c, col_a>>, <<a_plus_c, col_b, col_c, col_a>>}

InitClass ==
    /\ \E exprs \in ClassVecs : classes = <<EquivalenceClass_new(exprs)>>
    /\ added = {}
    /\ nops = 0
    /\ call = NoCall
    /\ window_frame = NoFrame
    /\ order_by = <<>>

Push(expr) ==
    /\ classes' = <<push(classes[1], expr)>>
    /\ call' = [op |-> "push", args |-> <<classes[1], expr>>]
    /\ UNCHANGED <<added, nops, window_frame, order_by>>

ExtendClass(other) ==
    /\ classes' = <<EquivalenceClass_extend(classes[1], other)>>
    /\ call' = [op |-> "EquivalenceClass::extend", args |-> <<classes[1], other>>]
    /\ UNCHANGED <<added, nops, window_frame, order_by>>

NextClass ==
    \/ \E expr \in ClassExprs : Push(expr)
    \/ \E exprs \in ClassVecs : ExtendClass(EquivalenceClass_new(exprs))

SpecClass == InitClass /\ [][NextClass]_vars

(***************************************************************************)
(* add_equal_conditions applied to a group that is already populated; call *)
(* keeps the classes the operation started from.                           *)
(***************************************************************************)
\* At most MaxAdds equalities are added to the group drawn at the start.
MaxAdds == 2

MergeExprs == {Literal(d) : d \in {"1", "2", "3", "4", "5", "6", "7"}}

\* The groups the equalities are added to.
MergeGroups ==
    {empty,
     EquivalenceGroup_from(<<<<Literal("1"), Literal("2")>>,
                             <<Literal("3"), Literal("4")>>,
                             <<Literal("5"), Literal("6")>>>>),
     EquivalenceGroup_from(<<<<Literal("1"), Literal("2")>>,
                             <<Literal("3"), Literal("4")>>,
                             <<Literal("5"), Literal("6")>>,
                             <<Literal("7"), Literal("8")>>>>)}

InitMerge ==
    /\ classes \in MergeGroups
    /\ added = {}
    /\ nops = 0
    /\ call = NoCall
    /\ window_frame = NoFrame
    /\ order_by = <<>>

AddEqualConditionsTo(left, right) ==
    /\ nops < MaxAdds
    /\ classes' = add_equal_conditions(classes, left, right)
    /\ nops' = nops + 1
    /\ call' = [op |-> "add_equal_conditions", args |-> <<left, right>>,
                pre |-> classes]
    /\ UNCHANGED <<added, window_frame, order_by>>

NextMerge ==
    \E left \in MergeExprs, right \in MergeExprs : AddEqualConditionsTo(left, right)

SpecMerge == InitMerge /\ [][NextMerge]_vars

(***************************************************************************)
(* bridge_classes step by step: call holds the cursors idx and next_idx    *)
(* (counted from 1), start_size and the position in the loops.             *)
(***************************************************************************)
\* bridge_classes is run on lists of at most MaxBridge classes.
MaxBridge == 3

\* The classes of the lists: empty, one member, two and three members that
\* overlap or not.
BridgeVecs ==
    {<<>>, <<lit(1)>>, <<lit(1), lit(2)>>, <<lit(2), lit(3)>>,
     <<lit(3), lit(4)>>, <<lit(4), lit(1)>>, <<lit(2), lit(1), lit(3)>>}

BridgeLists ==
    UNION {[1..n -> BridgeVecs] : n \in 0..MaxBridge}
    \cup {[i \in 1..4 |-> EquivalenceClass_new(t[i])] : t \in BridgeTestCases}

\* bridge_classes is entered: `let mut idx = 0`.
InitBridge ==
    /\ classes \in BridgeLists
    /\ added = {}
    /\ nops = 0
    /\ call = [op |-> "bridge_classes", args |-> <<classes>>, pc |-> "outer",
               idx |-> 1, next_idx |-> 1, start_size |-> 0]
    /\ window_frame = NoFrame
    /\ order_by = <<>>

\* `while idx < self.classes.len()`, and the two `let` of its body.
OuterLoop ==
    /\ call.pc = "outer"
    /\ IF call.idx <= Len(classes)
       THEN call' = [call EXCEPT !.pc = "inner", !.next_idx = call.idx + 1,
                                 !.start_size = Len(classes[call.idx])]
       ELSE call' = [call EXCEPT !.pc = "done"]
    /\ UNCHANGED <<classes, added, nops, window_frame, order_by>>

\* `while next_idx < self.classes.len()` and its body.
InnerLoop ==
    /\ call.pc = "inner"
    /\ IF call.next_idx <= Len(classes)
       THEN IF contains_any(classes[call.idx], classes[call.next_idx])
            THEN LET extension == classes[call.next_idx]
                     removed == swap_remove(classes, call.next_idx)
                 IN  /\ classes' =
                            [removed EXCEPT ![call.idx] =
                                 EquivalenceClass_extend(removed[call.idx],
                                                         extension)]
                     /\ UNCHANGED call
            ELSE /\ call' = [call EXCEPT !.next_idx = call.next_idx + 1]
                 /\ UNCHANGED classes
       ELSE /\ call' = [call EXCEPT !.pc = "check"]
            /\ UNCHANGED classes
    /\ UNCHANGED <<added, nops, window_frame, order_by>>

\* EnlargedCheck holding idx back whenever the class has not become smaller.
EnlargedCheck_not_smaller ==
    /\ call.pc = "check"
    /\ IF Len(classes[call.idx]) >= call.start_size
       THEN call' = [call EXCEPT !.pc = "outer"]
       ELSE call' = [call EXCEPT !.pc = "outer", !.idx = call.idx + 1]
    /\ UNCHANGED <<classes, added, nops, window_frame, order_by>>

\* `if self.classes[idx].len() > start_size { continue; } idx += 1;`
EnlargedCheck ==
    /\ call.pc = "check"
    /\ IF Len(classes[call.idx]) > call.start_size
       THEN call' = [call EXCEPT !.pc = "outer"]
       ELSE call' = [call EXCEPT !.pc = "outer", !.idx = call.idx + 1]
    /\ UNCHANGED <<classes, added, nops, window_frame, order_by>>

NextBridge == OuterLoop \/ InnerLoop \/ EnlargedCheck

SpecBridge == InitBridge /\ [][NextBridge]_vars

\* The loops are sequential code: a step that can be taken is taken.
SpecBridgeFair == SpecBridge /\ WF_vars(NextBridge)

(***************************************************************************)
(* Properties of a group                                                   *)
(***************************************************************************)
ClassMembers(cls) == {cls[j] : j \in 1..Len(cls)}

\* The members of the classes of cs.
Members(cs) == UNION {ClassMembers(cs[i]) : i \in 1..Len(cs)}

Disjoint(cs) ==
    \A i, j \in 1..Len(cs) :
        i # j => ClassMembers(cs[i]) \cap ClassMembers(cs[j]) = {}

SameClass(cs, e1, e2) ==
    \E i \in 1..Len(cs) : contains(cs[i], e1) /\ contains(cs[i], e2)

\* The expressions one pair of `pairs` away from a member of S, with S.
Linked(S, pairs) ==
    S \cup {p[2] : p \in {q \in pairs : q[1] \in S}}
      \cup {p[1] : p \in {q \in pairs : q[2] \in S}}

\* The connected component of S in the graph whose edges are `pairs`.
RECURSIVE Component(_, _)
Component(S, pairs) ==
    IF Linked(S, pairs) = S THEN S ELSE Component(Linked(S, pairs), pairs)

\* C1: in every group reachable from empty() or new() by
\* add_equal_conditions, extend, project and join, no expression is a member
\* of two distinct classes.
C1_Disjointness == Disjoint(classes)

C1_Witness ==
    /\ call.op = "add_equal_conditions"
    /\ nops = MaxOps
    /\ Len(classes) >= 2
    /\ \E i \in 1..Len(classes) : Len(classes[i]) >= 3

\* C2: after any mutating operation every class of the group has at least
\* two distinct members.
C2_MinimumSize ==
    \A i \in 1..Len(classes) : Cardinality(ClassMembers(classes[i])) >= 2

\* C3: starting from the empty group, after any sequence of
\* add_equal_conditions calls two distinct expressions are in one class
\* exactly when a chain of the added pairs connects them.
C3_ConnectedComponents ==
    \A e1, e2 \in AddExprs :
        e1 # e2 =>
            (SameClass(classes, e1, e2) <=> e2 \in Component({e1}, added))

C3_Witness ==
    /\ call = [op |-> "add_equal_conditions", args |-> <<col_b, col_c>>]
    /\ added = {<<col_a, col_b>>, <<col_c, a_plus_c>>, <<col_b, col_c>>}
    /\ Len(classes) = 1
    /\ ClassMembers(classes[1]) = AddExprs

\* C7: repeating add_equal_conditions(a, b) right after the call leaves the
\* group as it is: same classes, same class order, same member order.
C7_AddIdempotent ==
    call.op = "add_equal_conditions" =>
        add_equal_conditions(classes, call.args[1], call.args[2]) = classes

C7_Witness ==
    /\ call.op = "add_equal_conditions"
    /\ call.args[1] # call.args[2]
    /\ nops = MaxOps
    /\ Len(classes) >= 2
    /\ SameClass(classes, call.args[1], call.args[2])

\* The expressions in a class of cs that shares a member with S, with S.
LinkedByClasses(S, cs) ==
    S \cup UNION {ClassMembers(cs[i]) :
                      i \in {k \in 1..Len(cs) : ClassMembers(cs[k]) \cap S # {}}}

\* The expressions a chain of classes of cs, consecutive ones sharing a
\* member, links to S.
RECURSIVE ClassComponent(_, _)
ClassComponent(S, cs) ==
    IF LinkedByClasses(S, cs) = S THEN S
    ELSE ClassComponent(LinkedByClasses(S, cs), cs)

\* C4: after bridge_classes every two classes are disjoint and the members
\* of the output classes are exactly the members of the input classes.
C4_BridgingClosure ==
    call.op = "bridge_classes" =>
        /\ Disjoint(classes)
        /\ Members(classes) = Members(call.args[1])

C4_Witness ==
    /\ call.op = "bridge_classes"
    /\ ~Disjoint(call.args[1])
    /\ Len(call.args[1]) = 3
    /\ Len(classes) = 2

\* C5: after bridge_classes two expressions are in one output class exactly
\* when a chain of input classes, consecutive ones sharing a member, links
\* them.
C5_BridgedComponents ==
    call.op = "bridge_classes" =>
        \A e1, e2 \in Members(call.args[1]) :
            SameClass(classes, e1, e2)
                <=> e2 \in ClassComponent({e1}, call.args[1])

\* Bridging the chain [1,2], [3,4], [2,3]: the first scan passes over
\* [3,4] before [2,3] links it.
C5_Witness ==
    /\ call.op = "bridge_classes"
    /\ call.args[1] = <<<<lit(1), lit(2)>>, <<lit(3), lit(4)>>,
                        <<lit(2), lit(3)>>>>
    /\ Len(classes) = 1

Range(v) == {v[i] : i \in 1..Len(v)}

\* C6: EquivalenceGroup::new keeps each expression of a class once and drops
\* every class that has at most one distinct member.
C6_RedundancyRemoval ==
    call.op = "new" =>
        /\ \A i \in 1..Len(classes) :
               /\ Cardinality(ClassMembers(classes[i])) = Len(classes[i])
               /\ Len(classes[i]) >= 2
        /\ Members(classes) =
               UNION {Range(call.args[k]) :
                          k \in {n \in 1..Len(call.args) :
                                     Cardinality(Range(call.args[n])) >= 2}}
        /\ \A k \in 1..Len(call.args) :
               Cardinality(Range(call.args[k])) >= 2 =>
                   \E i \in 1..Len(classes) :
                       Range(call.args[k]) \subseteq ClassMembers(classes[i])

\* new([1,1,2], [3,3]) is the group of the one class [1,2].
C6_Witness ==
    /\ call.op = "new"
    /\ call.args = <<<<lit(1), lit(1), lit(2)>>, <<lit(3), lit(3)>>>>
    /\ classes = <<<<lit(1), lit(2)>>>>

\* The index of the class of cs that has expr as a member, 0 if none has.
ClassOf(cs, expr) ==
    IF \E i \in 1..Len(cs) : contains(cs[i], expr)
    THEN CHOOSE i \in 1..Len(cs) : contains(cs[i], expr)
    ELSE 0

\* C8: normalize_expr replaces a node that is a member of a class by the
\* first-inserted member of that class, whatever its children are; a node
\* that is in no class keeps its kind and has its children normalized.
C8_NormalizeToCanonical ==
    /\ \A i \in 1..Len(classes) : \A j \in 1..Len(classes[i]) :
           normalize_expr(classes, classes[i][j]) = classes[i][1]
    /\ call.op = "normalize_expr" =>
           LET expr == call.args[1]
           IN  IF ClassOf(classes, expr) # 0
               THEN call.ret = classes[ClassOf(classes, expr)][1]
               ELSE /\ type_id(call.ret) = type_id(expr)
                    /\ call.ret.label = expr.label
                    /\ Len(children(call.ret)) = Len(children(expr))
                    /\ \A i \in 1..Len(children(expr)) :
                           children(call.ret)[i] =
                               normalize_expr(classes, children(expr)[i])

\* a + b is in a class whose first member is x while its child b is in a
\* class whose first member is a: a + b becomes x.
C8_Witness ==
    /\ call.op = "normalize_expr"
    /\ call.args[1] = a_plus_b
    /\ classes = <<<<col_x, a_plus_b>>, <<col_a, col_b>>>>
    /\ call.ret = col_x

\* C9: for two compound expressions of one kind and one number of children
\* that are neither equal nor in a common class, exprs_equal holds exactly
\* when it holds for every pair of children in the same position; it is
\* false when one side is a leaf that is neither equal to the other side
\* nor in a class with it.
C9_StructuralCongruence ==
    call.op = "exprs_equal" =>
        LET left == call.args[1]
            right == call.args[2]
        IN  (left # right /\ ~SameClass(classes, left, right)) =>
                /\ (/\ children(left) # <<>>
                    /\ children(right) # <<>>
                    /\ type_id(left) = type_id(right)
                    /\ Len(children(left)) = Len(children(right)))
                   => (call.ret <=>
                          \A i \in 1..Len(children(left)) :
                              exprs_equal(classes, children(left)[i],
                                          children(right)[i]))
                /\ (children(left) = <<>> \/ children(right) = <<>>)
                   => ~call.ret

\* With a = x and b = y known, a + b and x + y are found equal.
C9_Witness ==
    /\ call.op = "exprs_equal"
    /\ call.args = <<a_plus_b, BinaryExpr(col_x, "+", col_y)>>
    /\ classes = <<<<col_a, col_x>>, <<col_b, col_y>>>>
    /\ call.ret

\* C10: exprs_equal finds two compound expressions that are neither equal
\* nor in a common class equal only when both carry the same operator.
C10_SameOperator ==
    call.op = "exprs_equal" =>
        LET left == call.args[1]
            right == call.args[2]
        IN  (/\ children(left) # <<>>
             /\ children(right) # <<>>
             /\ left # right
             /\ ~SameClass(classes, left, right)
             /\ call.ret)
            => (type_id(left) = type_id(right) /\ left.label = right.label)

(***************************************************************************)
(* Projection                                                              *)
(***************************************************************************)
\* C11: whenever two pairs of the mapping have sources that exprs_equal
\* holds of in the group that is projected, their targets are the same
\* expression or members of one class of the projected group.
C11_ProjectPreservesEquivalence ==
    call.op = "project" =>
        LET mapping == call.args[1]
        IN  \A i \in 1..Len(mapping), j \in 1..Len(mapping) :
                exprs_equal(classes, mapping[i][1], mapping[j][1]) =>
                    \/ mapping[i][2] = mapping[j][2]
                    \/ SameClass(call.ret, mapping[i][2], mapping[j][2])

\* The pairs of the mapping whose source is structurally equal to expr.
ExactPairs(mapping, expr) == {i \in 1..Len(mapping) : mapping[i][1] = expr}

\* The pairs of the mapping whose source is in a class that holds expr too.
ClassPairs(cs, mapping, expr) ==
    {i \in 1..Len(mapping) :
         \E k \in 1..Len(cs) : /\ contains(cs[k], mapping[i][1])
                               /\ contains(cs[k], expr)}

First(S) == CHOOSE i \in S : \A j \in S : i <= j

\* The projections of the children of expr, in order.
ProjectedChildren(cs, mapping, expr) ==
    [i \in 1..Len(children(expr)) |-> project_expr(cs, mapping, children(expr)[i])]

\* C12: project_expr returns the target of a pair whose source is expr when
\* there is one, even if a class links expr to another pair; otherwise the
\* target of the first pair whose source shares a class with expr; and only
\* when there is neither, what the projection of the children gives.
C12_ResolutionOrder ==
    call.op = "project_expr" =>
        LET mapping == call.args[1]
            expr == call.args[2]
            exact == ExactPairs(mapping, expr)
            by_class == ClassPairs(classes, mapping, expr)
        IN  IF exact # {} THEN \E i \in exact : call.ret = mapping[i][2]
            ELSE IF by_class # {} THEN call.ret = mapping[First(by_class)][2]
            ELSE call.ret \in
                     {None,
                      with_new_children(expr,
                          ProjectedChildren(classes, mapping, expr))}

\* An expression that is the source of one pair and shares a class with the
\* source of an earlier pair of another target: the exact match wins.
C12_Witness ==
    /\ call.op = "project_expr"
    /\ LET mapping == call.args[1]
           expr == call.args[2]
           exact == ExactPairs(mapping, expr)
           by_class == ClassPairs(classes, mapping, expr)
       IN  /\ exact # {}
           /\ by_class # {}
           /\ First(by_class) < First(exact)
           /\ mapping[First(by_class)][2] # mapping[First(exact)][2]
           /\ call.ret = mapping[First(exact)][2]

\* C13: when expr matches no source, directly or through a class,
\* project_expr returns None for a leaf, and for a node it returns the node
\* of the same kind over the projected children if every child projects and
\* None otherwise.
C13_ProjectExprTotal ==
    (/\ call.op = "project_expr"
     /\ ExactPairs(call.args[1], call.args[2]) = {}
     /\ ClassPairs(classes, call.args[1], call.args[2]) = {}) =>
        LET mapping == call.args[1]
            expr == call.args[2]
            projected == ProjectedChildren(classes, mapping, expr)
        IN  IF children(expr) = <<>> THEN call.ret = None
            ELSE IF \A i \in 1..Len(projected) : projected[i] # None
                 THEN /\ call.ret # None
                      /\ type_id(call.ret) = type_id(expr)
                      /\ call.ret.label = expr.label
                      /\ children(call.ret) = projected
                 ELSE call.ret = None

\* A node that matches no source, with one child that projects and one
\* that does not: the result is None.
C13_Witness ==
    /\ call.op = "project_expr"
    /\ ExactPairs(call.args[1], call.args[2]) = {}
    /\ ClassPairs(classes, call.args[1], call.args[2]) = {}
    /\ LET projected == ProjectedChildren(classes, call.args[1], call.args[2])
       IN  /\ \E i \in 1..Len(projected) : projected[i] = None
           /\ \E i \in 1..Len(projected) : projected[i] # None
    /\ call.ret = None

(***************************************************************************)
(* Join                                                                    *)
(***************************************************************************)
\* expr with every column index raised by n.
RECURSIVE Shifted(_, _)
Shifted(expr, n) ==
    IF type_id(expr) = "Column" THEN Column(expr.label, expr.index + n)
    ELSE with_new_children(expr,
             [i \in 1..Len(children(expr)) |-> Shifted(children(expr)[i], n)])

\* Two expressions are equal or members of one class of the group.
Equivalent(cs, e1, e2) == e1 = e2 \/ SameClass(cs, e1, e2)

\* C14: the result of an inner join keeps together what a class of the left
\* group holds, keeps together, shifted by the left width, what a class of
\* the right group holds, and has the left side and the shifted right side
\* of every on pair as members of one class.
C14_InnerJoinComposition ==
    (call.op = "join" /\ call.args[2] = "Inner") =>
        LET right == call.args[1]
            n == call.args[3]
            on == call.args[4]
        IN  /\ \A k \in 1..Len(classes) :
                   \A e1 \in ClassMembers(classes[k]),
                      e2 \in ClassMembers(classes[k]) :
                       Equivalent(call.ret, e1, e2)
            /\ \A k \in 1..Len(right) :
                   \A e1 \in ClassMembers(right[k]),
                      e2 \in ClassMembers(right[k]) :
                       Equivalent(call.ret, Shifted(e1, n), Shifted(e2, n))
            /\ \A i \in 1..Len(on) :
                   SameClass(call.ret, on[i][1], Shifted(on[i][2], n))

\* An inner join of two groups that both have classes, on a pair whose
\* right side moves when it is shifted and was not equal to the left side
\* in either group.
C14_Witness ==
    /\ call.op = "join"
    /\ call.args[2] = "Inner"
    /\ classes # <<>>
    /\ call.args[1] # <<>>
    /\ call.args[3] > 0
    /\ \E i \in 1..Len(call.args[4]) :
           LET lhs == call.args[4][i][1]
               rhs == call.args[4][i][2]
           IN  /\ Shifted(rhs, call.args[3]) # rhs
               /\ ~SameClass(classes, lhs, Shifted(rhs, call.args[3]))
               /\ SameClass(call.ret, lhs, Shifted(rhs, call.args[3]))

\* C15: a left semi, left anti or left mark join returns the left group as
\* it is, and a right semi or right anti join returns the right group as it
\* is, with no offset, whatever the on pairs are.
C15_SemiJoinPassThrough ==
    call.op = "join" =>
        /\ call.args[2] \in {"LeftSemi", "LeftAnti", "LeftMark"}
               => call.ret = classes
        /\ call.args[2] \in {"RightSemi", "RightAnti"}
               => call.ret = call.args[1]

\* A right semi join with a positive left width, on pairs, and two sides
\* that differ: the result is the right group, not offset.
C15_Witness ==
    /\ call.op = "join"
    /\ call.args[2] = "RightSemi"
    /\ call.args[3] > 0
    /\ call.args[4] # <<>>
    /\ call.args[1] # <<>>
    /\ call.args[1] # classes
    /\ call.ret = call.args[1]

(***************************************************************************)
(* Window frames                                                           *)
(***************************************************************************)
StartBoundError ==
    plan_err("Invalid window frame: start bound cannot be UNBOUNDED FOLLOWING")

EndBoundError ==
    plan_err("Invalid window frame: end bound cannot be UNBOUNDED PRECEDING")

RowsGroupsOffsetError ==
    plan_err("Invalid window frame: frame offsets for ROWS / GROUPS must be non negative integers")

\* The clause of a frame specification is accepted for the units by
\* WindowFrameBound::try_parse; an omitted end bound is.
BoundParses(bound, units) == bound = None \/ try_parse(bound, units).ok

\* C16, as stated: try_from returns the start bound error for every frame
\* specification whose start bound is UNBOUNDED FOLLOWING, whatever the
\* units and the end bound.
C16_StartUnboundedFollowing ==
    (call.op = "try_from" /\ call.args[1].start_bound = ast_Following(None))
        => call.ret = StartBoundError

\* C16, amended: try_from returns the start bound error for every frame
\* specification whose start bound is UNBOUNDED FOLLOWING and whose end
\* bound is omitted or accepted by try_parse; an end bound that try_parse
\* rejects gives the error of try_parse.
C16_StartUnboundedFollowingParsedEnd ==
    (call.op = "try_from" /\ call.args[1].start_bound = ast_Following(None))
        => LET value == call.args[1]
           IN  IF BoundParses(value.end_bound, value.units)
               THEN call.ret = StartBoundError
               ELSE call.ret = try_parse(value.end_bound, value.units)

\* A frame from UNBOUNDED FOLLOWING to UNBOUNDED PRECEDING: the start bound
\* is the one reported.
C16_Witness ==
    /\ call.op = "try_from"
    /\ call.args[1].start_bound = ast_Following(None)
    /\ call.args[1].end_bound = ast_Preceding(None)
    /\ call.ret = StartBoundError

\* C17: try_from returns the end bound error for every frame specification
\* whose end bound is UNBOUNDED PRECEDING and whose start bound is UNBOUNDED
\* PRECEDING, N PRECEDING, CURRENT ROW or N FOLLOWING, and never returns a
\* frame whose end bound is UNBOUNDED PRECEDING.
C17_EndUnboundedPreceding ==
    call.op = "try_from" =>
        LET value == call.args[1]
        IN  /\ (/\ value.end_bound = ast_Preceding(None)
                /\ value.start_bound # ast_Following(None)
                /\ BoundParses(value.start_bound, value.units))
                   => call.ret = EndBoundError
            /\ call.ret.ok => call.ret.value.end_bound # Preceding(UInt64None)

\* The number the digits at the head of a text denote, 0 if there are none.
RECURSIVE LeadingNumber(_, _)
LeadingNumber(text, acc) ==
    IF text = <<>> \/ ~is_digit(Head(text)) THEN acc
    ELSE LeadingNumber(Tail(text), acc * 10 + digit_value(Head(text)))

\* The offset N of a bound N PRECEDING or N FOLLOWING.
Offset(bound) ==
    IF data_type(bound.value) = "UInt64" THEN bound.value.n
    ELSE LeadingNumber(bound.value.s, 0)

\* The value of a bound is one the bound parser produces for the units.
ParserValue(units, bound) ==
    \/ bound = CurrentRow
    \/ bound.value = UInt64None
    \/ units \in {"Rows", "Groups"} /\ data_type(bound.value) = "UInt64"
    \/ units = "Range" /\ data_type(bound.value) = "Utf8"

\* C18: a frame whose offsets are ones the bound parser produces is causal
\* exactly when its units are ROWS and its end bound is CURRENT ROW,
\* N PRECEDING or 0 FOLLOWING, or its units are RANGE or GROUPS and its end
\* bound is UNBOUNDED PRECEDING or N PRECEDING with N > 0.
C18_CausalityRule ==
    (/\ window_frame # NoFrame
     /\ ParserValue(window_frame.units, window_frame.start_bound)
     /\ ParserValue(window_frame.units, window_frame.end_bound)) =>
        LET units == window_frame.units
            end_bound == window_frame.end_bound
            bounded == end_bound # CurrentRow /\ ~is_null(end_bound.value)
        IN  is_causal(window_frame) <=>
                \/ /\ units = "Rows"
                   /\ \/ end_bound = CurrentRow
                      \/ end_bound.kind = "Preceding" /\ bounded
                      \/ /\ end_bound.kind = "Following"
                         /\ bounded
                         /\ Offset(end_bound) = 0
                \/ /\ units \in {"Range", "Groups"}
                   /\ end_bound.kind = "Preceding"
                   /\ \/ is_null(end_bound.value)
                      \/ bounded /\ Offset(end_bound) > 0

\* A bound is UNBOUNDED PRECEDING, UNBOUNDED FOLLOWING or CURRENT ROW.
UnboundedOrCurrentRow(bound) ==
    bound \in {Preceding(UInt64None), Following(UInt64None), CurrentRow}

FreeRange(frame) ==
    /\ UnboundedOrCurrentRow(frame.start_bound)
    /\ UnboundedOrCurrentRow(frame.end_bound)

\* C19: regularize_order_bys fails exactly for a RANGE frame that is not
\* free-range with a number of keys other than one, and for a GROUPS frame
\* with no keys; a failure leaves the keys as they were, and the only change
\* a success makes is one constant key appended to the empty list of a
\* free-range RANGE frame.
C19_RegularizeOutcome ==
    call.op = "regularize_order_bys" =>
        LET keys == call.args[1]
            fails ==
                \/ /\ window_frame.units = "Range"
                   /\ ~FreeRange(window_frame)
                   /\ Len(keys) # 1
                \/ window_frame.units = "Groups" /\ keys = <<>>
            appends ==
                /\ window_frame.units = "Range"
                /\ FreeRange(window_frame)
                /\ keys = <<>>
        IN  /\ call.ret.ok <=> ~fails
            /\ fails => order_by = keys
            /\ IF appends
               THEN order_by = <<Sort(lit_1u64, TRUE, FALSE)>>
               ELSE order_by = keys

\* A RANGE frame from UNBOUNDED PRECEDING to CURRENT ROW regularized with
\* no keys: it succeeds and the constant key is the only key.
C19_Witness ==
    /\ call.op = "regularize_order_bys"
    /\ window_frame.units = "Range"
    /\ window_frame.start_bound = Preceding(UInt64None)
    /\ window_frame.end_bound = CurrentRow
    /\ call.args[1] = <<>>
    /\ call.ret.ok
    /\ order_by = <<Sort(lit_1u64, TRUE, FALSE)>>

\* An interval has a field or a precision.
Qualified(v) ==
    \/ v.leading_field # None
    \/ v.leading_precision # None
    \/ v.last_field # None
    \/ v.fractional_seconds_precision # None

\* C20, as stated: for ROWS and GROUPS try_parse rejects every interval
\* offset, PRECEDING or FOLLOWING, with the error that the offsets must be
\* non negative integers, and returns a bound only for a plain number, for
\* UNBOUNDED and for CURRENT ROW.
C20_IntervalRejected ==
    (call.op = "try_parse" /\ call.args[2] \in {"ROWS", "GROUPS"}) =>
        LET value == call.args[1]
        IN  /\ (value.offset # None /\ value.offset.kind = "Interval")
                   => call.ret = RowsGroupsOffsetError
            /\ call.ret.ok =>
                   \/ value.offset = None
                   \/ value.offset.kind = "Number"

\* C20, amended: for ROWS and GROUPS try_parse rejects every interval offset
\* that has a leading field, a last field or a precision, PRECEDING or
\* FOLLOWING, with the error that the offsets must be non negative integers;
\* an interval without any of them is read as its quoted string, so a bound
\* is returned only for UNBOUNDED, for CURRENT ROW, and for a number or a
\* bare quoted string that is an unsigned integer.
C20_QualifiedIntervalRejected ==
    (call.op = "try_parse" /\ call.args[2] \in {"ROWS", "GROUPS"}) =>
        LET value == call.args[1]
            v == value.offset
        IN  /\ (v # None /\ v.kind = "Interval" /\ Qualified(v))
                   => call.ret = RowsGroupsOffsetError
            /\ call.ret.ok =>
                   \/ v = None
                   \/ /\ v.kind = "Number"
                      /\ call.ret.value.value = UInt64(LeadingNumber(v.value, 0))
                   \/ /\ v.kind = "Interval"
                      /\ ~Qualified(v)
                      /\ v.value.kind = "SingleQuotedString"
                      /\ call.ret.value.value =
                             UInt64(LeadingNumber(v.value.value, 0))

\* The interval '1' DAY as the offset of a GROUPS bound N FOLLOWING.
C20_Witness ==
    /\ call.op = "try_parse"
    /\ call.args[2] = "GROUPS"
    /\ call.args[1].kind = "Following"
    /\ call.args[1].offset # None
    /\ call.args[1].offset.kind = "Interval"
    /\ call.args[1].offset.leading_field = DateTimeField(<<"D", "A", "Y">>)
    /\ call.ret = RowsGroupsOffsetError

(***************************************************************************)
(* Sort keys                                                               *)
(***************************************************************************)
\* Of the first n entries of v, those whose expression no earlier entry has,
\* in order.
RECURSIVE FirstOccurrences(_, _)
FirstOccurrences(v, n) ==
    IF n = 0 THEN <<>>
    ELSE IF \E j \in 1..(n - 1) : v[j].expr = v[n].expr
         THEN FirstOccurrences(v, n - 1)
         ELSE Append(FirstOccurrences(v, n - 1), v[n])

\* C21: normalize_sort_requirements and normalize_sort_exprs normalize the
\* expression of every entry and leave its options, then keep, in their
\* order, the entries whose normalized expression no earlier entry has, so
\* no two entries of the result have the same expression.
C21_SortKeysCollapse ==
    call.op \in {"normalize_sort_requirements", "normalize_sort_exprs"} =>
        LET keys == call.args[1]
            normalized == [i \in 1..Len(keys) |->
                               [expr |-> normalize_expr(classes, keys[i].expr),
                                options |-> keys[i].options]]
        IN  /\ call.ret = FirstOccurrences(normalized, Len(normalized))
            /\ \A i, j \in 1..Len(call.ret) :
                   call.ret[i].expr = call.ret[j].expr => i = j

\* Three requirements of which the first and the third have different
\* expressions and options and one normalized expression: the third is
\* dropped, the first keeps its options, the second stays behind it.
C21_Witness ==
    /\ call.op = "normalize_sort_requirements"
    /\ Len(call.args[1]) = 3
    /\ call.args[1][1].expr # call.args[1][3].expr
    /\ call.args[1][1].options # call.args[1][3].options
    /\ normalize_expr(classes, call.args[1][1].expr)
           = normalize_expr(classes, call.args[1][3].expr)
    /\ normalize_expr(classes, call.args[1][1].expr) # call.args[1][1].expr
    /\ Len(call.ret) = 2
    /\ call.ret[1].options = call.args[1][1].options
    /\ call.ret[2].expr = normalize_expr(classes, call.args[1][2].expr)

(***************************************************************************)
(* EquivalenceClass                                                        *)
(***************************************************************************)
\* C22: push of a member changes nothing and push of another expression
\* appends it; extend keeps the members in their order and appends, in the
\* order of the other class, its members that were not present; so the
\* canonical expression of a class that was not empty stays, and the empty
\* class has none.
C22_InsertionOrder ==
    /\ call.op = "push" =>
           LET cls == call.args[1]
               expr == call.args[2]
           IN  /\ classes[1] = IF expr \in ClassMembers(cls) THEN cls
                               ELSE cls \o <<expr>>
               /\ cls # <<>> => canonical_expr(classes[1]) = cls[1]
    /\ call.op = "EquivalenceClass::extend" =>
           LET cls == call.args[1]
               other == call.args[2]
           IN  /\ classes[1] =
                      cls \o SelectSeq(other,
                                 LAMBDA e : e \notin ClassMembers(cls))
               /\ cls # <<>> => canonical_expr(classes[1]) = cls[1]
    /\ (call.op \in {"none", "push", "EquivalenceClass::extend"}
            /\ classes # <<>> /\ classes[1] = <<>>)
           => canonical_expr(classes[1]) = None

\* A class of two members extended by a class that starts with a new
\* expression and also holds the second member: the new expression comes
\* last and the canonical expression stays.
C22_Witness ==
    /\ call.op = "EquivalenceClass::extend"
    /\ Len(call.args[1]) = 2
    /\ Len(call.args[2]) >= 2
    /\ call.args[2][1] \notin ClassMembers(call.args[1])
    /\ call.args[1][2] \in ClassMembers(call.args[2])
    /\ classes[1][Len(classes[1])] \notin ClassMembers(call.args[1])
    /\ canonical_expr(classes[1]) = call.args[1][1]

(***************************************************************************)
(* add_equal_conditions on a populated group                               *)
(***************************************************************************)
\* cls has expr among its members.
Has(cls, expr) == expr \in ClassMembers(cls)

\* C23: when add_equal_conditions finds left and right in two different
\* classes, at the indexes i < j, the merged class is at index i, its members
\* are those of the former class i in their order followed by those of the
\* former class j in their order, its canonical expression is the one class i
\* had, whichever of left and right was in class i, the former class j is
\* gone, and every class at an index below j other than i is where and what
\* it was.
C23_MergeDirection ==
    call.op = "add_equal_conditions" =>
        LET pre == call.pre
            left == call.args[1]
            right == call.args[2]
        IN  \A i \in 1..Len(pre), j \in 1..Len(pre) :
                (/\ i < j
                 /\ \/ Has(pre[i], left) /\ Has(pre[j], right)
                    \/ Has(pre[i], right) /\ Has(pre[j], left))
                => /\ Len(classes) = Len(pre) - 1
                   /\ classes[i] = pre[i] \o pre[j]
                   /\ canonical_expr(classes[i]) = pre[i][1]
                   /\ \A k \in 1..Len(classes) : classes[k] # pre[j]
                   /\ \A k \in 1..(j - 1) : k # i => classes[k] = pre[k]

\* A merge of a later class, holding left, into an earlier one, holding
\* right, with an untouched class below the removed one and another class
\* behind it.
C23_Witness ==
    /\ call.op = "add_equal_conditions"
    /\ \E i \in 1..Len(call.pre), j \in 1..Len(call.pre), k \in 1..Len(call.pre) :
           /\ i < j /\ k < j /\ k # i /\ j < Len(call.pre)
           /\ Has(call.pre[j], call.args[1])
           /\ Has(call.pre[i], call.args[2])
           /\ classes[i] = call.pre[i] \o call.pre[j]

\* cls is the start of some class of cs.
IsPrefix(p, cls) == Len(p) <= Len(cls) /\ SubSeq(cls, 1, Len(p)) = p

\* C27: add_equal_conditions removes no expression from the group; every
\* class that contains neither left nor right keeps its members and their
\* order, whatever its position becomes; a class that receives an expression
\* keeps its members in their order and has the new one appended last.
C27_AddFrame ==
    call.op = "add_equal_conditions" =>
        LET pre == call.pre
            left == call.args[1]
            right == call.args[2]
            InSome(e) == \E k \in 1..Len(pre) : Has(pre[k], e)
        IN  /\ Members(pre) \subseteq Members(classes)
            /\ \A k \in 1..Len(pre) :
                   (~Has(pre[k], left) /\ ~Has(pre[k], right))
                   => \E n \in 1..Len(classes) : classes[n] = pre[k]
            /\ \A k \in 1..Len(pre) :
                   /\ (Has(pre[k], left) /\ ~InSome(right))
                      => classes[k] = Append(pre[k], right)
                   /\ (Has(pre[k], right) /\ ~InSome(left))
                      => classes[k] = Append(pre[k], left)
            /\ \A k \in 1..Len(pre) :
                   (\A n \in 1..Len(classes) : ~IsPrefix(pre[k], classes[n]))
                   => \E i \in 1..(k - 1) : classes[i] = pre[i] \o pre[k]

\* left is new and joins the class of right, which is neither the first nor
\* the last class; the other classes are what they were.
C27_Witness ==
    /\ call.op = "add_equal_conditions"
    /\ \E k \in 2..(Len(call.pre) - 1) :
           /\ Has(call.pre[k], call.args[2])
           /\ ~Has(call.pre[k], call.args[1])
           /\ classes[k] = Append(call.pre[k], call.args[1])
           /\ Len(call.pre[k]) >= 2
           /\ classes[1] = call.pre[1]

(***************************************************************************)
(* Outer joins                                                             *)
(***************************************************************************)
\* The classes of the left group followed by those of the right group with
\* every column index raised by n.
JoinedClasses(left, right, n) ==
    left \o [i \in 1..Len(right) |->
                 [j \in 1..Len(right[i]) |-> Shifted(right[i][j], n)]]

\* C24: the result of a left, right or full join is the group built from the
\* classes of the left group and the classes of the right group shifted by
\* left_size, bridged and without redundant entries; the on pairs add
\* nothing: the left side and the shifted right side of a pair are in one
\* class of the result only if those classes already link them.
C24_OuterJoinIgnoresOn ==
    (call.op = "join" /\ call.args[2] \in {"Left", "Right", "Full"}) =>
        LET n == call.args[3]
            on == call.args[4]
            base == JoinedClasses(classes, call.args[1], n)
        IN  /\ call.ret = EquivalenceGroup_new(base)
            /\ Disjoint(call.ret)
            /\ Members(call.ret) = Members(base)
            /\ \A e1 \in Members(base), e2 \in Members(base) :
                   SameClass(call.ret, e1, e2)
                       <=> e2 \in ClassComponent({e1}, base)
            /\ \A i \in 1..Len(on) :
                   SameClass(call.ret, on[i][1], Shifted(on[i][2], n))
                       => Shifted(on[i][2], n) \in ClassComponent({on[i][1]}, base)

\* A left join of two groups on a pair whose left side is a member of a left
\* class and whose shifted right side is a member of a shifted right class:
\* the result has both, in two classes.
C24_Witness ==
    /\ call.op = "join"
    /\ call.args[2] = "Left"
    /\ call.args[3] > 0
    /\ \E i \in 1..Len(call.args[4]) :
           LET lhs == call.args[4][i][1]
               rhs == Shifted(call.args[4][i][2], call.args[3])
           IN  /\ lhs \in Members(call.ret)
               /\ rhs \in Members(call.ret)
               /\ ~SameClass(call.ret, lhs, rhs)

(***************************************************************************)
(* Termination of bridge_classes                                           *)
(***************************************************************************)
\* Every class the loops read is inside the list.
BridgeInBounds ==
    /\ call.pc = "inner" => call.idx <= Len(classes)
    /\ call.pc = "check" => call.idx <= Len(classes)
    /\ call.pc \in {"inner", "check"} => call.idx < call.next_idx

\* A step of the inner scan removes a class or advances next_idx; idx stays
\* where it is only after a pass that enlarged classes[idx], and moves on by
\* one otherwise.
BridgeProgress ==
    /\ (call.pc = "inner" /\ call'.pc = "inner")
           => \/ Len(classes') = Len(classes) - 1 /\ call'.next_idx = call.next_idx
              \/ classes' = classes /\ call'.next_idx = call.next_idx + 1
    /\ call.pc = "check"
           => IF Len(classes[call.idx]) > call.start_size
              THEN call'.idx = call.idx
              ELSE call'.idx = call.idx + 1

\* C25: bridge_classes terminates on every list of classes: each step of the
\* inner scan removes a class or advances next_idx, idx is held back only
\* after a pass that made classes[idx] larger, no class is read past the end
\* of the list, and the loops end with idx past the last class.
C25_BridgeTerminates ==
    /\ []BridgeInBounds
    /\ [][BridgeProgress]_vars
    /\ <>(call.pc = "done" /\ call.idx = Len(classes) + 1)
    /\ [](call.pc = "done" => classes = bridge_classes(call.args[1]))

\* The loops are over for the chain [1,2], [3,4], [2,3], whose first pass
\* enlarges the first class and leaves [3,4] for a second pass.
C25_Witness ==
    /\ call.op = "bridge_classes"
    /\ call.pc = "done"
    /\ call.args[1] = <<<<lit(1), lit(2)>>, <<lit(3), lit(4)>>,
                        <<lit(2), lit(3)>>>>
    /\ Len(classes) = 1

(***************************************************************************)
(* Carried-over classes of project                                         *)
(***************************************************************************)
\* The projections of the members of cls that project.
Projections(cs, mapping, cls) ==
    {project_expr(cs, mapping, cls[j]) : j \in 1..Len(cls)} \ {None}

\* C26: the members of a class of the group that project do so to one
\* expression or to members of one class of the projected group; a member
\* that does not project leaves nothing behind, and a class with fewer than
\* two distinct projections contributes no class: what the projected group
\* holds are projections of classes that have two or more, and targets of
\* the mapping.
C26_CarriedOverClasses ==
    call.op = "project" =>
        LET mapping == call.args[1]
            Carried == UNION {Projections(classes, mapping, classes[k]) :
                                  k \in {n \in 1..Len(classes) :
                                             Cardinality(Projections(classes, mapping,
                                                                     classes[n])) >= 2}}
        IN  /\ \A k \in 1..Len(classes) :
                   \A p1 \in Projections(classes, mapping, classes[k]),
                      p2 \in Projections(classes, mapping, classes[k]) :
                       Equivalent(call.ret, p1, p2)
            /\ Carried \subseteq Members(call.ret)
            /\ Members(call.ret) \subseteq
                   Carried \cup {mapping[i][2] : i \in 1..Len(mapping)}
            /\ \A i \in 1..Len(call.ret) : Len(call.ret[i]) >= 2

\* A class of three members, one of which does not project while the other
\* two project, through their children, to two expressions that no pair of
\* the mapping names: the projected group has the class of these two.
C26_Witness ==
    /\ call.op = "project"
    /\ \E k \in 1..Len(classes) :
           /\ \E j \in 1..Len(classes[k]) :
                  project_expr(classes, call.args[1], classes[k][j]) = None
           /\ \E p1 \in Projections(classes, call.args[1], classes[k]),
                 p2 \in Projections(classes, call.args[1], classes[k]) :
                  /\ p1 # p2
                  /\ p1 \notin {call.args[1][i][2] : i \in 1..Len(call.args[1])}
                  /\ SameClass(call.ret, p1, p2)

(***************************************************************************)
(* Algebra of the queries                                                  *)
(***************************************************************************)
\* C28: normalize_expr is idempotent: normalizing what normalize_expr
\* returned gives the same expression again, for every group and every
\* expression, leaf or compound.
C28_NormalizeIdempotent ==
    call.op = "normalize_expr" =>
        normalize_expr(classes, call.ret) = call.ret

\* C29: exprs_equal is an equivalence relation: it gives the same answer
\* with its arguments exchanged, and two expressions that are both equal to
\* a third one are equal to each other, also when members of classes are
\* compound expressions.
C29_ExprsEqualEquivalence ==
    call.op = "exprs_equal" =>
        LET left == call.args[1]
            right == call.args[2]
        IN  /\ call.ret = exprs_equal(classes, right, left)
            /\ call.ret =>
                   \A other \in QueryExprs :
                       exprs_equal(classes, right, other)
                           => exprs_equal(classes, left, other)

\* The symmetry half of C29 alone.
ExprsEqualSymmetric ==
    call.op = "exprs_equal" =>
        call.ret = exprs_equal(classes, call.args[2], call.args[1])

(***************************************************************************)
(* WindowFrame::reverse                                                    *)
(***************************************************************************)
\* A bound with PRECEDING and FOLLOWING exchanged.
Mirror(bound) ==
    IF bound.kind = "Preceding" THEN [bound EXCEPT !.kind = "Following"]
    ELSE IF bound.kind = "Following" THEN [bound EXCEPT !.kind = "Preceding"]
    ELSE bound

\* C30: reverse keeps the units, makes the mirrored end bound the start
\* bound and the mirrored start bound the end bound, and computes the causal
\* flag anew from them; reversing the reversed frame gives back the frame,
\* causal flag included, for every frame made by WindowFrame::new,
\* new_bounds, try_from or reverse.
C30_ReverseInvolution ==
    call.op = "reverse" =>
        LET f == call.args[1]
        IN  /\ window_frame.units = f.units
            /\ window_frame.start_bound = Mirror(f.end_bound)
            /\ window_frame.end_bound = Mirror(f.start_bound)
            /\ window_frame.causal =
                   new_bounds(f.units, Mirror(f.end_bound),
                              Mirror(f.start_bound)).causal
            /\ reverse(window_frame) = f

\* The frame of WindowFrame::new for a strict ORDER BY, ROWS BETWEEN
\* UNBOUNDED PRECEDING AND CURRENT ROW, reversed: the bounds are mirrored
\* and the frame is no longer causal.
C30_Witness ==
    /\ call.op = "reverse"
    /\ call.args[1] = WindowFrame_new(SomeOrderBy(TRUE))
    /\ window_frame.start_bound = CurrentRow
    /\ window_frame.end_bound = Following(UInt64None)
    /\ call.args[1].causal
    /\ ~window_frame.causal

====
